---- MODULE Spec2Model ----
(***************************************************************************)
(* A model of the orchestration core of auto_bitbrowser:                   *)
(*   - the Job Store      (DBManager.upsert_account and its callers),      *)
(*   - the card / proxy pool (DBManager.get_available_cards and others),  *)
(*   - the Verification Client (SheerIDVerifier),                          *)
(*   - the Batch Orchestrator (AutoAllInOneWorker).                        *)
(* Each component has its own specification (StoreSpec, PoolSpec,          *)
(* VerifySpec, BatchSpec) over the shared variables; a specification       *)
(* leaves the variables of the other components unchanged.                 *)
(***************************************************************************)
EXTENDS Integers, Sequences, FiniteSets, TLC

(***************************************************************************)
(* Bounds of the model.                                                    *)
(***************************************************************************)
\* number of threads calling the Job Store concurrently
NumThreads == 2
\* number of upsert_account calls begun in one behaviour
MaxCalls == 2
\* number of verify_batch calls on one client object
MaxBatches == 2
\* number of lines the service sends in one answer stream
MaxLines == 2
\* number of cards imported before a batch
MaxCards == 2
\* number of cards and proxies added to the pool in one behaviour
MaxPoolRows == 3
\* number of accounts selected for one batch
MaxJobs == 2
\* largest value of the concurrency setting
MaxConcurrency == 2
\* largest value of the cards-per-account setting
MaxPerCard == 2
\* the rows selected in the SheerID window
MaxSelected == 11
\* the largest max_retries of execute_with_retry
MaxRetries == 2
\* how often pause() is called during one execute_with_retry
MaxPauses == 2

VARIABLES
    \* ---- Job Store (core/database.py, database.py) ----
    variant,    \* which DBManager module is loaded: "core" or "root"
    accounts,   \* the accounts table: a set of rows, email is the primary key
    lock,       \* holder of the module-level threading.Lock, 0 when free
    pc,         \* per thread: position inside upsert_account
    call,       \* per thread: the arguments of its current / last call
    exists,     \* per thread: result of the SELECT in upsert_account
    pre,        \* per thread: the table as it was when the lock was taken
    hist,       \* the committed upserts in commit order, each with whether
                \* another call for the same email was waiting for the lock
    now,        \* CURRENT_TIMESTAMP, in seconds
    ncalls,     \* number of calls begun
    \* ---- Verification Client (sheerid_verifier.py) ----
    vpc,              \* position inside verify_batch
    verification_ids, \* the ids passed to verify_batch
    results,          \* the map verify_batch builds and returns
    csrf_token,       \* self.csrf_token, also self.headers["X-CSRF-Token"]
    sent_token,       \* X-CSRF-Token header of the last batch POST
    posts,            \* batch POSTs issued by the current call
    nlines,           \* lines of the answer stream read so far
    poll_vid,         \* the id _poll_status is polling for
    poll_i,           \* loop index i of _poll_status
    check_token,      \* check_token of _poll_status
    poll_requests,    \* status requests issued by the current _poll_status
    nbatches,         \* verify_batch calls begun on this client object
    first_event,      \* the first event of the stream for a submitted id
    poll_log,         \* the first answers to the status requests of the call
    cancel_result,    \* what the last cancel_verification met and returned
    \* ---- card / proxy pool (core/database.py) ----
    cards,            \* the cards table: a set of rows, id is the primary key
    card_seq,         \* AUTOINCREMENT sequence of cards: the last id given
    proxies,          \* the proxies table: a set of rows
    proxy_seq,        \* AUTOINCREMENT sequence of proxies
    queried,          \* the last pool query, "none" once a table changed
    limit,            \* the limit argument of that query, 0 for None
    answer,           \* the list that query returned
    consumed_cards,   \* ids of the cards whose usage has reached max_usage
    used_proxies,     \* ids of the proxies marked used
    \* ---- Batch Orchestrator (auto_all_in_one_gui.py) ----
    self_cards,        \* self.cards: the list load_cards built
    opc,               \* position of the worker inside _process_all
    accounts_n,        \* len(self.accounts)
    cards_per_account, \* self.cards_per_account
    thread_count,      \* self.thread_count
    is_running,        \* self.is_running
    batch_start,       \* batch_start of _process_all
    idx,               \* i of the inner loop of _process_all
    card_index,        \* card_index of _process_all
    card_usage_count,  \* card_usage_count of _process_all
    jobs,              \* per account: its task, its card and its outcome
    alloc,             \* the last assignment and the stored row of its card
    \* ---- account pipelines (run_playwright_google.py, sheerid_gui.py,
    \*      auto_all_in_one_gui.py) ----
    loaded,            \* emails of self.accounts of the all-in-one window
    links,             \* emails of the rows of the SheerID window's table
    last,              \* the last pipeline run: its account and what it met
    \* ---- WorkerThread.run_sheerlink (gui/worker_thread.py) ----
    task_pc,           \* position of the worker inside run_sheerlink
    task_running,      \* self.is_running of the WorkerThread
    max_workers,       \* thread_count, the size of the pool
    future_to_id,      \* per id of ids_to_process: its future
    finished_tasks,    \* finished_tasks of run_sheerlink
    stats,             \* stats of run_sheerlink
    \* ---- VerifyWorker (sheerid_gui.py) ----
    worker_pc,         \* position of the worker inside run
    worker_running,    \* self.is_running of the VerifyWorker
    batches,           \* batches of run: the slices of tasks
    batch_idx,         \* how many batches the loop of run has been through
    calls,             \* the verify_batch calls of run, in order
    \* ---- AutoAllInOneWorker.run (auto_all_in_one_gui.py) ----
    finished_signal,   \* how often run has emitted finished_signal
    \* ---- BaseWorker.execute_with_retry (workers/base_worker.py) ----
    retry_pc,          \* position inside execute_with_retry
    base_running,      \* self._is_running of the BaseWorker
    is_paused,         \* self._is_paused of the BaseWorker
    max_retries,       \* the max_retries of the call
    delay_ms,          \* the delay_ms of the call
    attempt,           \* attempt of the for loop
    last_error,        \* last_error: the call whose error it is, 0 for None
    elapsed,           \* elapsed of msleep_interruptible
    func_calls,        \* the calls of func so far, and how each ended
    retry_result,      \* how execute_with_retry ended
    npauses            \* how often pause() was called

storeVars == <<variant, accounts, lock, pc, call, exists, pre,
               hist, now, ncalls>>

verifyVars == <<vpc, verification_ids, results, csrf_token, sent_token,
                posts, nlines, poll_vid, poll_i, check_token, poll_requests,
                nbatches, first_event, poll_log, cancel_result>>

poolVars == <<cards, card_seq, proxies, proxy_seq, queried, limit, answer,
              consumed_cards, used_proxies>>

batchVars == <<self_cards, opc, accounts_n, cards_per_account, thread_count,
               is_running, batch_start, idx, card_index, card_usage_count,
               jobs, alloc>>

sheerlinkVars == <<task_pc, task_running, max_workers, future_to_id,
                   finished_tasks, stats>>

workerVars == <<worker_pc, worker_running, batches, batch_idx, calls>>

retryVars == <<retry_pc, base_running, is_paused, max_retries, delay_ms,
               attempt, last_error, elapsed, func_calls, retry_result,
               npauses>>

pipeVars == <<loaded, links, last, sheerlinkVars, workerVars, finished_signal,
              retryVars>>

vars == <<storeVars, verifyVars, poolVars, batchVars, pipeVars>>

(***************************************************************************)
(*                               JOB STORE                                 *)
(***************************************************************************)
Threads == 1..NumThreads
NoThread == 0 * NumThreads

\* an email argument that Python treats as false
EmptyEmail == ""

\* the columns upsert_account may write besides status
DataFields == {"password", "recovery_email", "secret_key",
               "verification_link", "browser_id", "message"}
\* Python None / SQL NULL of a data column
None == <<>>
\* the value the n-th call passes for column f
Val(f, n) == <<f, n>>

\* status = None
NoStatus == "None"
\* the six statuses of the pipeline
Statuses == {"pending_check", "link_ready", "verified", "subscribed",
             "ineligible", "error"}
\* status values callers pass: None, a pipeline literal, and what the admin
\* endpoints forward from the request unvalidated (any string, here "")
StatusArgs == {NoStatus, "verified", ""}

\* `status or <default>`: None and "" are false
Truthy(s) == s \notin {NoStatus, ""}

\* the default of the INSERT branch of upsert_account
DefaultStatus(v) == IF v = "core" THEN "pending_check" ELSE "pending"

\* which data columns the callers of the repository pass together:
\* update_status(email, status), update_status(email, status, message),
\* AccountManager.move_to_*(line); no caller passes browser_id
MaskStatusOnly == {}
MaskMessage == {"message"}
MaskLine == {"password", "recovery_email", "secret_key", "verification_link"}
Masks == {MaskStatusOnly, MaskMessage, MaskLine}

\* the argument tuple of the n-th call
MkArgs(e, mask, st, n) ==
    [email |-> e, status |-> st,
     password |-> IF "password" \in mask THEN Val("password", n) ELSE None,
     recovery_email |-> IF "recovery_email" \in mask
                        THEN Val("recovery_email", n) ELSE None,
     secret_key |-> IF "secret_key" \in mask THEN Val("secret_key", n) ELSE None,
     verification_link |-> IF "verification_link" \in mask
                           THEN Val("verification_link", n) ELSE None,
     browser_id |-> IF "browser_id" \in mask THEN Val("browser_id", n) ELSE None,
     message |-> IF "message" \in mask THEN Val("message", n) ELSE None]

\* the calls of the model: every shape on the first account, one import
\* line for a second account, and one call with an empty email
FirstEmail == "a@x.com"
OtherEmail == "b@x.com"
UpsertArgs(n) ==
    {MkArgs(FirstEmail, m, st, n) : m \in Masks, st \in StatusArgs}
    \cup {MkArgs(OtherEmail, MaskLine, "link_ready", n)}
    \cup {MkArgs(EmptyEmail, MaskLine, "verified", n)}

Emails == {FirstEmail, OtherEmail}

NoCall == MkArgs(EmptyEmail, {}, NoStatus, 0 * MaxCalls)

HasRow(tbl, e) == \E r \in tbl : r.email = e
RowOf(tbl, e) == CHOOSE r \in tbl : r.email = e

\* no statement is executed: an existing record and nothing passed
NoStmt == [kind |-> "none"]

\* an UPDATE that writes every argument column, passed or not
UpsertStatementAllColumns(found, a, v) ==
    IF found
    THEN [kind |-> "update", email |-> a.email,
          set |-> [f \in DataFields \cup {"status"} |->
                     IF f = "status" /\ a.status = NoStatus THEN None ELSE a[f]]]
    ELSE [kind |-> "insert", email |-> a.email,
          row |-> [email |-> a.email, password |-> a.password,
                   recovery_email |-> a.recovery_email,
                   secret_key |-> a.secret_key,
                   verification_link |-> a.verification_link,
                   browser_id |-> a.browser_id,
                   status |-> IF Truthy(a.status) THEN a.status
                              ELSE DefaultStatus(v),
                   message |-> a.message]]

\* the statement upsert_account executes, given what its SELECT saw
UpsertStatement(found, a, v) ==
    IF found
    THEN LET data == {f \in DataFields : a[f] # None}
             cols == data \cup (IF a.status # NoStatus THEN {"status"} ELSE {})
         IN IF cols # {}
            THEN [kind |-> "update", email |-> a.email,
                  set |-> [f \in cols |-> a[f]]]
            ELSE NoStmt
    ELSE [kind |-> "insert", email |-> a.email,
          row |-> [email |-> a.email,
                   password |-> a.password,
                   recovery_email |-> a.recovery_email,
                   secret_key |-> a.secret_key,
                   verification_link |-> a.verification_link,
                   browser_id |-> a.browser_id,
                   status |-> IF Truthy(a.status) THEN a.status
                              ELSE DefaultStatus(v),
                   message |-> a.message]]

\* the PRIMARY KEY constraint on accounts.email
ViolatesPrimaryKey(tbl, stmt) ==
    stmt.kind = "insert" /\ HasRow(tbl, stmt.email)

\* the table after the statement, executed at second ts
Execute(tbl, stmt, ts) ==
    CASE stmt.kind = "insert" ->
           tbl \cup {[f \in DOMAIN stmt.row \cup {"updated_at"} |->
                        IF f \in DOMAIN stmt.row THEN stmt.row[f] ELSE ts]}
      [] stmt.kind = "update" ->
           {IF r.email = stmt.email
            THEN [f \in DOMAIN r |->
                    IF f \in DOMAIN stmt.set THEN stmt.set[f]
                    ELSE IF f = "updated_at" THEN ts ELSE r[f]]
            ELSE r : r \in tbl}
      [] OTHER -> tbl

\* `with lock:` can be entered
LockAvailable == lock = NoThread

\* the store holds one account imported earlier
ImportedRow ==
    [email |-> OtherEmail, password |-> Val("password", 0 * MaxCalls),
     recovery_email |-> None, secret_key |-> None, verification_link |-> None,
     browser_id |-> None, status |-> "pending_check", message |-> None,
     updated_at |-> 0 * MaxCalls]

StoreInit ==
    /\ variant \in {"core", "root"}
    /\ accounts = {ImportedRow}
    /\ lock = NoThread
    /\ pc = [t \in Threads |-> "idle"]
    /\ call = [t \in Threads |-> NoCall]
    /\ exists = [t \in Threads |-> FALSE]
    /\ pre = [t \in Threads |-> {}]
    /\ hist = <<>>
    /\ now = 0 * MaxCalls
    /\ ncalls = 0 * MaxCalls

\* threads are interchangeable: a new call is taken by the first idle one
FirstIdle(t) == \A u \in Threads : pc[u] = "idle" => t <= u

\* upsert_account is entered: `if not email: return`
Enter(t, a) ==
    /\ call' = [call EXCEPT ![t] = a]
    /\ pc' = [pc EXCEPT ![t] = IF a.email = EmptyEmail THEN "skipped" ELSE "lock"]
    /\ ncalls' = ncalls + 1
    /\ UNCHANGED <<variant, accounts, lock, exists, pre, hist, now>>
    /\ UNCHANGED <<verifyVars, poolVars, batchVars, pipeVars>>

\* a caller calls upsert_account with new arguments
UpsertCall(t) ==
    /\ pc[t] = "idle"
    /\ FirstIdle(t)
    /\ ncalls < MaxCalls
    /\ \E a \in UpsertArgs(ncalls + 1) : Enter(t, a)

\* a caller repeats the upsert that was committed last, same arguments
UpsertRepeat(t) ==
    /\ pc[t] = "idle"
    /\ FirstIdle(t)
    /\ ncalls < MaxCalls
    /\ hist # <<>>
    /\ Enter(t, hist[Len(hist)].args)

\* with lock: conn = get_connection()
Acquire(t) ==
    /\ pc[t] = "lock"
    /\ LockAvailable
    /\ lock' = t
    /\ pre' = [pre EXCEPT ![t] = accounts]
    /\ pc' = [pc EXCEPT ![t] = "select"]
    /\ UNCHANGED <<variant, accounts, call, exists, hist, now, ncalls>>
    /\ UNCHANGED <<verifyVars, poolVars, batchVars, pipeVars>>

\* SELECT * FROM accounts WHERE email = ?
Select(t) ==
    /\ pc[t] = "select"
    /\ exists' = [exists EXCEPT ![t] = HasRow(accounts, call[t].email)]
    /\ pc' = [pc EXCEPT ![t] = "write"]
    /\ UNCHANGED <<variant, accounts, lock, call, pre, hist, now, ncalls>>
    /\ UNCHANGED <<verifyVars, poolVars, batchVars, pipeVars>>

\* the UPDATE or INSERT is executed and conn.commit() makes it durable; an
\* INSERT of an email that is already there raises sqlite3.IntegrityError,
\* which leaves the with block (the lock is released) and is swallowed
Write(t) ==
    /\ pc[t] = "write"
    /\ LET stmt == UpsertStatement(exists[t], call[t], variant)
       IN IF ViolatesPrimaryKey(accounts, stmt)
          THEN /\ pc' = [pc EXCEPT ![t] = "integrity_error"]
               /\ lock' = IF lock = t THEN NoThread ELSE lock
               /\ UNCHANGED <<accounts, hist, now>>
          ELSE /\ \E ts \in {now, now + 1} :
                    /\ accounts' = Execute(accounts, stmt, ts)
                    /\ now' = ts
               /\ hist' = Append(hist, [args |-> call[t],
                                        conc |-> \E u \in Threads \ {t} :
                                                   /\ pc[u] = "lock"
                                                   /\ call[u].email = call[t].email])
               /\ pc' = [pc EXCEPT ![t] = "release"]
               /\ UNCHANGED lock
    /\ UNCHANGED <<variant, call, exists, pre, ncalls>>
    /\ UNCHANGED <<verifyVars, poolVars, batchVars, pipeVars>>

\* what a thread keeps of a call is dropped when the call returns
Forget(t) ==
    /\ pc' = [pc EXCEPT ![t] = "idle"]
    /\ call' = [call EXCEPT ![t] = NoCall]
    /\ exists' = [exists EXCEPT ![t] = FALSE]
    /\ pre' = [pre EXCEPT ![t] = {}]

\* conn.close(), the with block ends, upsert_account returns
Release(t) ==
    /\ pc[t] = "release"
    /\ lock' = IF lock = t THEN NoThread ELSE lock
    /\ Forget(t)
    /\ UNCHANGED <<variant, accounts, hist, now, ncalls>>
    /\ UNCHANGED <<verifyVars, poolVars, batchVars, pipeVars>>

\* a failure that leaves the lock with the call that failed
PersistenceFailureUnreleased(t) ==
    /\ pc[t] \in {"select", "write"}
    /\ pc' = [pc EXCEPT ![t] = "db_error"]
    /\ UNCHANGED <<variant, accounts, lock, call, exists, pre, hist, now, ncalls>>
    /\ UNCHANGED <<verifyVars, poolVars, batchVars, pipeVars>>

\* sqlite raises inside the with block (disk error, database locked by
\* another process): nothing is committed, the lock is released, the
\* exception is caught by `except Exception`
PersistenceFailure(t) ==
    /\ pc[t] \in {"select", "write"}
    /\ lock' = IF lock = t THEN NoThread ELSE lock
    /\ pc' = [pc EXCEPT ![t] = "db_error"]
    /\ UNCHANGED <<variant, accounts, call, exists, pre, hist, now, ncalls>>
    /\ UNCHANGED <<verifyVars, poolVars, batchVars, pipeVars>>

\* upsert_account returns without having written: after the empty-email
\* check, or after the except clause printed the error
ReturnUnwritten(t) ==
    /\ pc[t] \in {"skipped", "db_error", "integrity_error"}
    /\ Forget(t)
    /\ UNCHANGED <<variant, accounts, lock, hist, now, ncalls>>
    /\ UNCHANGED <<verifyVars, poolVars, batchVars, pipeVars>>

StoreNext ==
    \E t \in Threads :
        \/ UpsertCall(t)
        \/ UpsertRepeat(t)
        \/ Acquire(t)
        \/ Select(t)
        \/ Write(t)
        \/ Release(t)
        \/ PersistenceFailure(t)
        \/ ReturnUnwritten(t)

(***************************************************************************)
(*                         VERIFICATION CLIENT                             *)
(***************************************************************************)
\* for i in range(60)
MaxPollAttempts == 60

\* the ids a caller submits, and an id the caller never submitted
Vids == {"V1", "V2"}
ForeignVid == "V9"
BatchInputs == {{"V1"}, {"V1", "V2"}}
NoVid == "no_vid"

\* a key that a dict does not have
NoKey == "no_key"
\* no token: self.csrf_token = None, or no X-CSRF-Token header
NoToken == 0 * MaxBatches

\* currentStep values of the service; "running" stands for any other step
Steps == {"success", "error", "pending", "running"}
Terminal(step) == step = "success" \/ step = "error"

\* a dict sent by the service, as it is stored in results
ServiceData(step) ==
    [currentStep |-> step, status |-> NoKey, message |-> "service"]
\* a result made up by the client
ClientError(msg) ==
    [currentStep |-> NoKey, status |-> "error", message |-> msg]
PollTimeoutResult == ClientError("Polling timeout (120s)")
RefreshFailedResult == ClientError("Token expired and refresh failed")
HttpErrorResult == ClientError("HTTP status")
ExceptionResult == ClientError("exception")

\* results = {}
EmptyMap == <<>>
\* results[vid] = r
Put(res, vid, r) ==
    [v \in DOMAIN res \cup {vid} |-> IF v = vid THEN r ELSE res[v]]
\* {vid: r for vid in verification_ids}
ErrorMap(ids, r) == [v \in ids |-> r]
\* for vid in verification_ids: if vid not in results: results[vid] = r
FillMissing(res, ids, r) ==
    [v \in DOMAIN res \cup ids |-> IF v \in DOMAIN res THEN res[v] ELSE r]

\* the lines of the answer stream
StreamLines ==
    {[kind |-> k, vid |-> NoVid, step |-> NoKey, token |-> FALSE] :
        k \in {"empty", "not_data", "malformed", "no_vid", "not_a_dict"}}
    \cup {[kind |-> "event", vid |-> v, step |-> st, token |-> tk] :
            v \in Vids \cup {ForeignVid}, st \in Steps, tk \in BOOLEAN}

\* what _handle_api_response does with the dict of one line:
\* "poll" to enter _poll_status, "record" to store it, "ignore" otherwise
HandleApiResponse(line) ==
    IF line.kind # "event" THEN "ignore"
    ELSE IF line.step = "pending" /\ line.token THEN "poll"
    ELSE IF Terminal(line.step) THEN "record"
    ELSE "ignore"

\* the answers to one status request
PollAnswers ==
    {[kind |-> "json", step |-> st, token |-> tk] :
        st \in Steps, tk \in BOOLEAN}
    \cup {[kind |-> k, step |-> NoKey, token |-> FALSE] :
            k \in {"timeout", "failure"}}

\* the check token of the event that started the poll loop, and a check
\* token that came with an answer to a status request
EventToken == 1
AnswerToken == 2

\* no event for a submitted id was read yet
NoEvent == [kind |-> "none", vid |-> NoVid, step |-> NoKey, token |-> FALSE]
\* the first event for a submitted id, once line is read
FirstEvent(line) ==
    IF first_event = NoEvent /\ line.kind = "event"
       /\ line.vid \in verification_ids
    THEN line ELSE first_event

\* an answer to a status request as the loop of _poll_status tells them
\* apart: no JSON answer, a terminal step, any other step
AnswerClass(ans) ==
    IF ans.kind # "json" THEN "no_answer"
    ELSE IF Terminal(ans.step) THEN ans.step
    ELSE "nonterminal"
\* the log of the status requests of a call, each with the id polled for
\* and the answer; it is kept for two requests, a third leaves only a mark
More == [vid |-> NoVid, ans |-> "more"]
Logged(log, vid, ans) ==
    IF log = <<More>> \/ Len(log) >= 2 THEN <<More>>
    ELSE Append(log, [vid |-> vid, ans |-> AnswerClass(ans)])

\* the answers to the cancel POST: a JSON body, a body that is not JSON, a
\* connection error or timeout; "not_sent" when there was no token to send
CancelAnswers == {"json", "not_json", "failure"}
\* the JSON body the service answers a cancel POST with
CancelAck == [currentStep |-> NoKey, status |-> "cancelled", message |-> "service"]
\* what a call of cancel_verification met and what it returned
Cancelled(post, ret) == [post |-> post, ret |-> ret]
NoCancel == Cancelled("none", ClientError("none"))

\* lines 225-233: the value returned for an answer to the cancel POST
CancelReturn(ans) ==
    CASE ans = "json" -> CancelAck
      [] ans = "not_json" -> ClientError("Invalid JSON")
      [] OTHER -> ClientError("exception")

VerifyInit ==
    /\ vpc = "idle"
    /\ verification_ids = {}
    /\ results = EmptyMap
    /\ csrf_token = NoToken
    /\ sent_token = NoToken
    /\ posts = 0 * MaxBatches
    /\ nlines = 0 * MaxLines
    /\ poll_vid = NoVid
    /\ poll_i = 0 * MaxLines
    /\ check_token = NoToken
    /\ poll_requests = 0 * MaxLines
    /\ nbatches = 0 * MaxBatches
    /\ first_event = NoEvent
    /\ poll_log = <<>>
    /\ cancel_result = NoCancel

\* the poll loop is not running
NoPoll ==
    /\ poll_vid' = NoVid
    /\ poll_i' = 0
    /\ check_token' = NoToken
    /\ poll_requests' = 0

\* verify_batch(verification_ids) is called
VerifyBatch ==
    /\ vpc = "idle"
    /\ nbatches < MaxBatches
    /\ \E ids \in BatchInputs : verification_ids' = ids
    /\ nbatches' = nbatches + 1
    /\ vpc' = "csrf"
    /\ results' = EmptyMap
    /\ posts' = 0
    /\ nlines' = 0
    /\ sent_token' = NoToken
    /\ NoPoll
    /\ UNCHANGED csrf_token
    /\ first_event' = NoEvent
    /\ poll_log' = <<>>
    /\ UNCHANGED cancel_result
    /\ UNCHANGED <<storeVars, poolVars, batchVars, pipeVars>>

\* _get_csrf_token: on a match the token is stored in the object and in its
\* headers; on no match or an exception nothing is stored
GetCsrfToken(ok, fetched) == IF ok THEN fetched ELSE csrf_token

\* lines 76-79: the refresh before the batch; its result is ignored
RefreshBeforeBatch ==
    /\ vpc = "csrf"
    /\ \E ok \in BOOLEAN : csrf_token' = GetCsrfToken(ok, nbatches)
    /\ vpc' = "post"
    /\ UNCHANGED <<verification_ids, results, sent_token, posts, nlines,
                   poll_vid, poll_i, check_token, poll_requests, nbatches>>
    /\ UNCHANGED <<first_event, poll_log, cancel_result>>
    /\ UNCHANGED <<storeVars, poolVars, batchVars, pipeVars>>

\* the answers to a batch POST; "failure" is a connection error or timeout
PostAnswers == {"ok", "denied", "http_error", "failure"}

\* lines 98-125: the batch POST, and the POST repeated after a refresh
BatchPost ==
    /\ vpc \in {"post", "repost"}
    /\ sent_token' = csrf_token
    /\ posts' = posts + 1
    /\ \E ans \in PostAnswers :
          CASE ans = "failure" ->
                 /\ results' = FillMissing(results, verification_ids,
                                           ExceptionResult)
                 /\ vpc' = "done"
            [] ans = "denied" /\ vpc = "post" ->
                 /\ vpc' = "refresh"
                 /\ UNCHANGED results
            [] ans = "ok" ->
                 /\ vpc' = "stream"
                 /\ UNCHANGED results
            [] OTHER ->
                 /\ results' = ErrorMap(verification_ids, HttpErrorResult)
                 /\ vpc' = "done"
    /\ UNCHANGED <<verification_ids, csrf_token, nlines, poll_vid, poll_i,
                   check_token, poll_requests, nbatches>>
    /\ UNCHANGED <<first_event, poll_log, cancel_result>>
    /\ UNCHANGED <<storeVars, poolVars, batchVars, pipeVars>>

\* a refresh whose failure does not keep the batch from being sent again
RefreshAfterDeniedResendAnyway ==
    /\ vpc = "refresh"
    /\ \E ok \in BOOLEAN : csrf_token' = GetCsrfToken(ok, nbatches)
    /\ vpc' = "repost"
    /\ UNCHANGED <<verification_ids, results, sent_token, posts, nlines,
                   poll_vid, poll_i, check_token, poll_requests, nbatches>>
    /\ UNCHANGED <<first_event, poll_log, cancel_result>>
    /\ UNCHANGED <<storeVars, poolVars, batchVars, pipeVars>>

\* lines 107-119: the refresh after a 401 / 403
RefreshAfterDenied ==
    /\ vpc = "refresh"
    /\ \E ok \in BOOLEAN :
          /\ csrf_token' = GetCsrfToken(ok, nbatches)
          /\ IF ok
             THEN vpc' = "repost" /\ UNCHANGED results
             ELSE /\ results' = ErrorMap(verification_ids, RefreshFailedResult)
                  /\ vpc' = "done"
    /\ UNCHANGED <<verification_ids, sent_token, posts, nlines, poll_vid,
                   poll_i, check_token, poll_requests, nbatches>>
    /\ UNCHANGED <<first_event, poll_log, cancel_result>>
    /\ UNCHANGED <<storeVars, poolVars, batchVars, pipeVars>>

\* lines 160-163: _poll_status is entered for vid
EnterPoll(vid) ==
    /\ poll_vid' = vid
    /\ check_token' = EventToken
    /\ poll_i' = 0
    /\ poll_requests' = 0
    /\ vpc' = "poll"
    /\ UNCHANGED results

\* lines 129-138: one line of the stream is read and handled
StreamLine ==
    /\ vpc = "stream"
    /\ nlines < MaxLines
    /\ nlines' = nlines + 1
    /\ \E line \in StreamLines :
          /\ first_event' = FirstEvent(line)
          /\ CASE line.kind = "not_a_dict" ->
                    \* data.get raises, caught by the outer except
                    /\ results' = FillMissing(results, verification_ids,
                                              ExceptionResult)
                    /\ vpc' = "done"
                    /\ UNCHANGED <<poll_vid, poll_i, check_token, poll_requests>>
               [] HandleApiResponse(line) = "record" ->
                    /\ results' = Put(results, line.vid, ServiceData(line.step))
                    /\ UNCHANGED <<vpc, poll_vid, poll_i, check_token,
                                   poll_requests>>
               [] HandleApiResponse(line) = "poll" ->
                    EnterPoll(line.vid)
               [] OTHER ->
                    UNCHANGED <<vpc, results, poll_vid, poll_i, check_token,
                                poll_requests>>
    /\ UNCHANGED <<verification_ids, csrf_token, sent_token, posts, nbatches>>
    /\ UNCHANGED <<poll_log, cancel_result>>
    /\ UNCHANGED <<storeVars, poolVars, batchVars, pipeVars>>

\* the connection breaks while the stream is read
StreamBroken ==
    /\ vpc = "stream"
    /\ results' = FillMissing(results, verification_ids, ExceptionResult)
    /\ vpc' = "done"
    /\ UNCHANGED <<verification_ids, csrf_token, sent_token, posts, nlines,
                   poll_vid, poll_i, check_token, poll_requests, nbatches>>
    /\ UNCHANGED <<first_event, poll_log, cancel_result>>
    /\ UNCHANGED <<storeVars, poolVars, batchVars, pipeVars>>

\* the stream ends: return results
StreamEnd ==
    /\ vpc = "stream"
    /\ vpc' = "done"
    /\ UNCHANGED <<verification_ids, results, csrf_token, sent_token, posts,
                   nlines, poll_vid, poll_i, check_token, poll_requests,
                   nbatches>>
    /\ UNCHANGED <<first_event, poll_log, cancel_result>>
    /\ UNCHANGED <<storeVars, poolVars, batchVars, pipeVars>>

\* one iteration of the loop of _poll_status started with index i and token
\* tok and answered ans: the next index and token, and the value returned
PollLoopMissedRetry(i, tok, ans) ==
    [i     |-> IF ans.kind = "json" THEN i + 1 ELSE i,
     token |-> IF ans.kind = "json" /\ ~Terminal(ans.step) /\ ans.token
               THEN AnswerToken ELSE tok,
     done  |-> ans.kind = "json" /\ Terminal(ans.step),
     ret   |-> ServiceData(ans.step)]

\* a loop that gives up at the first attempt without an answer
PollLoopFailFast(i, tok, ans) ==
    [i     |-> i + 1,
     token |-> IF ans.kind = "json" /\ ~Terminal(ans.step) /\ ans.token
               THEN AnswerToken ELSE tok,
     done  |-> ans.kind # "json" \/ Terminal(ans.step),
     ret   |-> IF ans.kind = "json" THEN ServiceData(ans.step)
               ELSE ExceptionResult]

PollLoop(i, tok, ans) ==
    [i     |-> i + 1,
     token |-> IF ans.kind = "json" /\ ~Terminal(ans.step) /\ ans.token
               THEN AnswerToken ELSE tok,
     done  |-> ans.kind = "json" /\ Terminal(ans.step),
     ret   |-> ServiceData(ans.step)]

\* requests counted up to one more than the budget
CountRequest(n) == IF n > MaxPollAttempts THEN n ELSE n + 1

\* lines 176-210: one status request and its answer
PollAttempt ==
    /\ vpc = "poll"
    /\ poll_i < MaxPollAttempts
    /\ poll_requests' = CountRequest(poll_requests)
    /\ \E ans \in PollAnswers :
          LET nxt == PollLoop(poll_i, check_token, ans)
          IN /\ poll_log' = Logged(poll_log, poll_vid, ans)
             /\ poll_i' = nxt.i
             /\ check_token' = nxt.token
             /\ IF nxt.done
                THEN /\ results' = Put(results, poll_vid, nxt.ret)
                     /\ vpc' = "polled"
                ELSE UNCHANGED <<results, vpc>>
    /\ UNCHANGED <<verification_ids, csrf_token, sent_token, posts, nlines,
                   poll_vid, nbatches>>
    /\ UNCHANGED <<first_event, cancel_result>>
    /\ UNCHANGED <<storeVars, poolVars, batchVars, pipeVars>>

\* line 212: the loop ran out
PollExhausted ==
    /\ vpc = "poll"
    /\ poll_i >= MaxPollAttempts
    /\ results' = Put(results, poll_vid, PollTimeoutResult)
    /\ vpc' = "polled"
    /\ UNCHANGED <<verification_ids, csrf_token, sent_token, posts, nlines,
                   poll_vid, poll_i, check_token, poll_requests, nbatches>>
    /\ UNCHANGED <<first_event, poll_log, cancel_result>>
    /\ UNCHANGED <<storeVars, poolVars, batchVars, pipeVars>>

\* _poll_status has returned: back to the stream
PollReturn ==
    /\ vpc = "polled"
    /\ vpc' = "stream"
    /\ NoPoll
    /\ UNCHANGED <<verification_ids, results, csrf_token, sent_token, posts,
                   nlines, nbatches>>
    /\ UNCHANGED <<first_event, poll_log, cancel_result>>
    /\ UNCHANGED <<storeVars, poolVars, batchVars, pipeVars>>

\* verify_batch returns results
VerifyReturn ==
    /\ vpc = "done"
    /\ vpc' = "idle"
    /\ UNCHANGED <<verification_ids, results, csrf_token, sent_token, posts,
                   nlines, poll_vid, poll_i, check_token, poll_requests,
                   nbatches>>
    /\ UNCHANGED <<first_event, poll_log, cancel_result>>
    /\ UNCHANGED <<storeVars, poolVars, batchVars, pipeVars>>

\* a pending event with a check token is read from the stream
PendingEvent ==
    /\ vpc = "stream"
    /\ nlines < MaxLines
    /\ nlines' = nlines + 1
    /\ \E vid \in Vids \cup {ForeignVid} :
          /\ EnterPoll(vid)
          /\ first_event' = FirstEvent([kind |-> "event", vid |-> vid,
                                        step |-> "pending", token |-> TRUE])
    /\ UNCHANGED <<verification_ids, csrf_token, sent_token, posts, nbatches>>
    /\ UNCHANGED <<poll_log, cancel_result>>
    /\ UNCHANGED <<storeVars, poolVars, batchVars, pipeVars>>

\* verify_batch reads the stream of its first batch POST, sent with no token
StreamInit ==
    /\ vpc = "stream"
    /\ verification_ids \in BatchInputs
    /\ results = EmptyMap
    /\ csrf_token = NoToken
    /\ sent_token = NoToken
    /\ posts = 1
    /\ nlines = 0
    /\ poll_vid = NoVid
    /\ poll_i = 0
    /\ check_token = NoToken
    /\ poll_requests = 0
    /\ nbatches = 1
    /\ first_event = NoEvent
    /\ poll_log = <<>>
    /\ cancel_result = NoCancel

\* a cancel that also ends the poll loop of the object
CancelStopsPolling ==
    /\ vpc = "poll"
    /\ cancel_result' = Cancelled("json", CancelAck)
    /\ results' = Put(results, poll_vid, CancelAck)
    /\ vpc' = "polled"
    /\ UNCHANGED <<verification_ids, csrf_token, sent_token, posts, nlines,
                   poll_vid, poll_i, check_token, poll_requests, nbatches>>
    /\ UNCHANGED <<first_event, poll_log>>
    /\ UNCHANGED <<storeVars, poolVars, batchVars, pipeVars>>

\* lines 214-233: cancel_verification(id), called from the window's thread
\* while the poll loop runs; without a token one is fetched first, and the
\* cancel POST is not sent if that fails
CancelVerification ==
    /\ vpc = "poll"
    /\ \E ok \in BOOLEAN : \E ans \in CancelAnswers :
          IF csrf_token = NoToken /\ ~ok
          THEN /\ cancel_result' = Cancelled("not_sent", ClientError("No CSRF Token"))
               /\ UNCHANGED csrf_token
          ELSE /\ cancel_result' = Cancelled(ans, CancelReturn(ans))
               /\ csrf_token' = IF csrf_token = NoToken
                                 THEN GetCsrfToken(ok, nbatches) ELSE csrf_token
    /\ UNCHANGED <<vpc, verification_ids, results, sent_token, posts, nlines,
                   poll_vid, poll_i, check_token, poll_requests, nbatches>>
    /\ UNCHANGED <<first_event, poll_log>>
    /\ UNCHANGED <<storeVars, poolVars, batchVars, pipeVars>>

CancelNext ==
    \/ PendingEvent
    \/ PollAttempt
    \/ PollExhausted
    \/ PollReturn
    \/ CancelVerification

PollNext ==
    \/ PendingEvent
    \/ PollAttempt
    \/ PollExhausted
    \/ PollReturn

VerifyNext ==
    \/ VerifyBatch
    \/ RefreshBeforeBatch
    \/ BatchPost
    \/ RefreshAfterDenied
    \/ StreamLine
    \/ StreamBroken
    \/ StreamEnd
    \/ PollAttempt
    \/ PollExhausted
    \/ PollReturn
    \/ VerifyReturn

(***************************************************************************)
(*                          CARD / PROXY POOL                              *)
(***************************************************************************)
\* the max_usage values cards are imported with
MaxUsageValues == {1, 2}

\* INSERT INTO cards: usage_count and is_active take the column defaults
NewCard(id, max_usage) ==
    [id |-> id, usage_count |-> 0, max_usage |-> max_usage, is_active |-> 1]
\* INSERT INTO proxies
NewProxy(id) == [id |-> id, is_used |-> 0]

\* WHERE is_active = 1 AND usage_count <= max_usage
CardAvailableUpToCap(c) == c.is_active = 1 /\ c.usage_count <= c.max_usage

\* WHERE is_active = 1 AND usage_count < max_usage
CardAvailable(c) == c.is_active = 1 /\ c.usage_count < c.max_usage

\* ORDER BY usage_count ASC, id ASC
CardBefore(c, d) ==
    \/ c.usage_count < d.usage_count
    \/ c.usage_count = d.usage_count /\ c.id < d.id

\* ORDER BY id
ProxyBefore(p, q) == p.id < q.id

\* the rows of S as the list the ORDER BY clause yields
RECURSIVE OrderCards(_)
OrderCards(S) ==
    IF S = {} THEN <<>>
    ELSE LET first == CHOOSE c \in S : \A d \in S \ {c} : CardBefore(c, d)
         IN <<first>> \o OrderCards(S \ {first})

RECURSIVE OrderProxies(_)
OrderProxies(S) ==
    IF S = {} THEN <<>>
    ELSE LET first == CHOOSE p \in S : \A q \in S \ {p} : ProxyBefore(p, q)
         IN <<first>> \o OrderProxies(S \ {first})

\* get_available_cards()
GetAvailableCards(tbl) == OrderCards({c \in tbl : CardAvailable(c)})

\* get_available_proxies(limit): LIMIT is added only if limit is true
GetAvailableProxies(tbl, lim) ==
    LET rows == OrderProxies({p \in tbl : p.is_used = 0})
    IN IF lim # 0 /\ lim < Len(rows) THEN SubSeq(rows, 1, lim) ELSE rows

\* UPDATE cards SET usage_count = usage_count + 1 WHERE id = ?
IncrementCardUsage(tbl, id) ==
    {IF c.id = id THEN [c EXCEPT !.usage_count = @ + 1] ELSE c : c \in tbl}

\* UPDATE cards SET is_active = ? WHERE id = ?
SetCardActive(tbl, id, is_active) ==
    {IF c.id = id THEN [c EXCEPT !.is_active = IF is_active THEN 1 ELSE 0]
     ELSE c : c \in tbl}

\* UPDATE proxies SET is_used = 1 WHERE id = ?
MarkProxyUsed(tbl, id) ==
    {IF p.id = id THEN [p EXCEPT !.is_used = 1] ELSE p : p \in tbl}

\* the cards of tbl whose usage has reached max_usage
Capped(tbl) == {c.id : c \in {d \in tbl : d.usage_count >= d.max_usage}}

PoolInit ==
    /\ cards = {}
    /\ card_seq = 0 * MaxPoolRows
    /\ proxies = {}
    /\ proxy_seq = 0 * MaxPoolRows
    /\ queried = "none"
    /\ limit = 0 * MaxPoolRows
    /\ answer = <<>>
    /\ consumed_cards = {}
    /\ used_proxies = {}

\* a table changed: the last answer is out of date
NoAnswer == queried' = "none" /\ limit' = 0 /\ answer' = <<>>

\* add_card(..., max_usage)
AddCard ==
    /\ card_seq + proxy_seq < MaxPoolRows
    /\ \E m \in MaxUsageValues : cards' = cards \cup {NewCard(card_seq + 1, m)}
    /\ card_seq' = card_seq + 1
    /\ NoAnswer
    /\ UNCHANGED <<proxies, proxy_seq, consumed_cards, used_proxies>>
    /\ UNCHANGED <<storeVars, verifyVars, batchVars, pipeVars>>

\* increment_card_usage(card_id); usage is counted up to one beyond the cap
IncrementUsage ==
    /\ \E c \in cards :
          /\ c.usage_count <= c.max_usage
          /\ cards' = IncrementCardUsage(cards, c.id)
    /\ consumed_cards' = consumed_cards \cup Capped(cards')
    /\ NoAnswer
    /\ UNCHANGED <<card_seq, proxies, proxy_seq, used_proxies>>
    /\ UNCHANGED <<storeVars, verifyVars, batchVars, pipeVars>>

\* set_card_active(card_id, is_active)
ToggleCard ==
    /\ \E c \in cards : \E b \in BOOLEAN :
          cards' = SetCardActive(cards, c.id, b)
    /\ NoAnswer
    /\ UNCHANGED <<card_seq, proxies, proxy_seq, consumed_cards, used_proxies>>
    /\ UNCHANGED <<storeVars, verifyVars, batchVars, pipeVars>>

\* delete_card(card_id)
DeleteCard ==
    /\ \E c \in cards : cards' = cards \ {c}
    /\ NoAnswer
    /\ UNCHANGED <<card_seq, proxies, proxy_seq, consumed_cards, used_proxies>>
    /\ UNCHANGED <<storeVars, verifyVars, batchVars, pipeVars>>

\* clear_all_cards()
ClearAllCards ==
    /\ cards # {}
    /\ cards' = {}
    /\ NoAnswer
    /\ UNCHANGED <<card_seq, proxies, proxy_seq, consumed_cards, used_proxies>>
    /\ UNCHANGED <<storeVars, verifyVars, batchVars, pipeVars>>

\* get_available_cards()
QueryCards ==
    /\ answer' = GetAvailableCards(cards)
    /\ queried' = "cards"
    /\ limit' = 0
    /\ UNCHANGED <<cards, card_seq, proxies, proxy_seq, consumed_cards,
                   used_proxies>>
    /\ UNCHANGED <<storeVars, verifyVars, batchVars, pipeVars>>

\* add_proxy(...)
AddProxy ==
    /\ card_seq + proxy_seq < MaxPoolRows
    /\ proxies' = proxies \cup {NewProxy(proxy_seq + 1)}
    /\ proxy_seq' = proxy_seq + 1
    /\ NoAnswer
    /\ UNCHANGED <<cards, card_seq, consumed_cards, used_proxies>>
    /\ UNCHANGED <<storeVars, verifyVars, batchVars, pipeVars>>

\* mark_proxy_used(proxy_id, used_by_email)
MarkUsed ==
    /\ \E p \in proxies :
          /\ proxies' = MarkProxyUsed(proxies, p.id)
          /\ used_proxies' = used_proxies \cup {p.id}
    /\ NoAnswer
    /\ UNCHANGED <<cards, card_seq, proxy_seq, consumed_cards>>
    /\ UNCHANGED <<storeVars, verifyVars, batchVars, pipeVars>>

\* delete_proxy(proxy_id)
DeleteProxy ==
    /\ \E p \in proxies : proxies' = proxies \ {p}
    /\ NoAnswer
    /\ UNCHANGED <<cards, card_seq, proxy_seq, consumed_cards, used_proxies>>
    /\ UNCHANGED <<storeVars, verifyVars, batchVars, pipeVars>>

\* clear_all_proxies()
ClearAllProxies ==
    /\ proxies # {}
    /\ proxies' = {}
    /\ NoAnswer
    /\ UNCHANGED <<cards, card_seq, proxy_seq, consumed_cards, used_proxies>>
    /\ UNCHANGED <<storeVars, verifyVars, batchVars, pipeVars>>

\* get_available_proxies(limit)
QueryProxies ==
    /\ \E lim \in 0..Cardinality(proxies) :
          /\ answer' = GetAvailableProxies(proxies, lim)
          /\ limit' = lim
    /\ queried' = "proxies"
    /\ UNCHANGED <<cards, card_seq, proxies, proxy_seq, consumed_cards,
                   used_proxies>>
    /\ UNCHANGED <<storeVars, verifyVars, batchVars, pipeVars>>

PoolNext ==
    \/ AddCard
    \/ IncrementUsage
    \/ ToggleCard
    \/ DeleteCard
    \/ ClearAllCards
    \/ QueryCards
    \/ AddProxy
    \/ MarkUsed
    \/ DeleteProxy
    \/ ClearAllProxies
    \/ QueryProxies

(***************************************************************************)
(*                          BATCH ORCHESTRATOR                             *)
(***************************************************************************)
NoCard == 0 * MaxCards

\* what the Driver and the Verification Client answered in one run of
\* _process_single_account, and the value it returned
Path(session, detected, verify, bind, success) ==
    [session |-> session, detected |-> detected, verify |-> verify,
     bind |-> bind, success |-> success]
NoPath == Path("none", "none", "none", "none", FALSE)

\* auto_bind_card: the card was bound, a card bound earlier was used, or
\* binding failed
BindPaths(session, detected, verify) ==
    {Path(session, detected, verify, "bound", TRUE),
     Path(session, detected, verify, "already_bound", TRUE),
     Path(session, detected, verify, "failed", FALSE)}

\* a pipeline that goes on to the bind stage whatever the verification
\* returned
ProcessSingleAccountBindAnyway ==
    {Path("failed", "none", "none", "none", FALSE),
     Path("raised", "none", "none", "none", FALSE),
     Path("ok", "subscribed", "none", "none", TRUE),
     Path("ok", "ineligible", "none", "none", FALSE),
     Path("ok", "error", "none", "none", FALSE),
     Path("ok", "link_ready", "no_link", "none", FALSE)}
    \cup BindPaths("ok", "verified", "none")
    \cup BindPaths("ok", "link_ready", "success")
    \cup BindPaths("ok", "link_ready", "failed")

\* the runs of _process_single_account; an exception raised anywhere in it
\* is caught there and returned as (False, str(e))
ProcessSingleAccount ==
    {Path("failed", "none", "none", "none", FALSE),
     Path("raised", "none", "none", "none", FALSE),
     Path("ok", "subscribed", "none", "none", TRUE),
     Path("ok", "ineligible", "none", "none", FALSE),
     Path("ok", "error", "none", "none", FALSE),
     Path("ok", "link_ready", "no_link", "none", FALSE),
     Path("ok", "link_ready", "failed", "none", FALSE)}
    \cup BindPaths("ok", "verified", "none")
    \cup BindPaths("ok", "link_ready", "success")

\* what the wrapper emits on progress_signal when the pipeline is over:
\* "completed" for a true result, "failed" for a false one; the branch for
\* an exception ("error") is never taken because the pipeline returns one
WrapperOutcome(path) == IF path.success THEN "completed" ELSE "failed"

\* the status column of the account after the pipeline: save_link and
\* move_to_verified of _handle_link_ready, move_to_subscribed of
\* auto_bind_card (only with account_info, only where the bind is confirmed)
StatusWritten(path, status, marked) ==
    IF path.bind \in {"bound", "already_bound"} /\ path.detected = "verified"
       /\ marked
    THEN "subscribed"
    ELSE IF path.verify = "success" THEN "verified"
    ELSE IF path.verify = "failed" THEN "link_ready"
    ELSE status

\* what the wrapper and the pipeline emit on progress_signal for an account
\* from its first final outcome event on: the intermediate events all come
\* from inside _process_single_account, which has returned when the
\* wrapper emits the outcome, and the wrapper emits nothing after it
ProgressEvents(path) == <<WrapperOutcome(path)>>

\* status: the status column of the account's row in the accounts table;
\* outcome: the last outcome the wrapper reported for the account;
\* events: what was emitted on progress_signal for the account, from the
\* first final outcome event on
NewJob == [stage |-> "none", card |-> NoCard, path |-> NoPath,
           incs |-> 0 * MaxJobs, status |-> "pending_check",
           outcome |-> "none", events |-> <<>>]
NoAlloc == [job |-> 0 * MaxJobs, id |-> NoCard, usage_count |-> 0 * MaxJobs,
            max_usage |-> 0 * MaxJobs, is_active |-> 0 * MaxJobs]

BatchInit ==
    /\ self_cards = <<>>
    /\ opc = "idle"
    /\ accounts_n = 0 * MaxJobs
    /\ cards_per_account = 1
    /\ thread_count = 1
    /\ is_running = FALSE
    /\ batch_start = 0 * MaxJobs
    /\ idx = 0 * MaxJobs
    /\ card_index = 0 * MaxCards
    /\ card_usage_count = 0 * MaxPerCard
    /\ jobs = <<>>
    /\ alloc = NoAlloc

\* a slice that takes every account that is left
BatchEndUnbounded == accounts_n

\* the accounts of the chunk that starts at batch_start, numbered from 1
BatchEnd ==
    IF batch_start + thread_count < accounts_n
    THEN batch_start + thread_count ELSE accounts_n
Chunk == (batch_start + 1)..BatchEnd

\* cards are imported in the admin page before the window is refreshed:
\* import_cards_from_text adds a card for a line of the text, every card
\* of the text with the max_usage of the request
ImportCard ==
    /\ opc = "idle"
    /\ self_cards = <<>>
    /\ card_seq < MaxCards
    /\ AddCard
    /\ \A c, d \in cards' : c.max_usage = d.max_usage

\* load_cards: self.cards is what get_available_cards returns now
LoadCards ==
    /\ opc = "idle"
    /\ self_cards' = GetAvailableCards(cards)
    /\ UNCHANGED <<opc, accounts_n, cards_per_account, thread_count,
                   is_running, batch_start, idx, card_index, card_usage_count,
                   jobs, alloc>>
    /\ UNCHANGED poolVars
    /\ UNCHANGED <<storeVars, verifyVars, pipeVars>>

\* start_processing: the worker is made and started
StartProcessing ==
    /\ opc = "idle"
    /\ \E n \in 1..MaxJobs :
          /\ accounts_n' = n
          /\ jobs' = [j \in 1..n |-> NewJob]
    /\ cards_per_account' \in 1..MaxPerCard
    /\ thread_count' \in 1..MaxConcurrency
    /\ is_running' = TRUE
    /\ batch_start' = 0
    /\ idx' = 0
    /\ card_index' = 0
    /\ card_usage_count' = 0
    /\ opc' = "chunk"
    /\ UNCHANGED <<self_cards, alloc>>
    /\ UNCHANGED poolVars
    /\ UNCHANGED <<storeVars, verifyVars, pipeVars>>

\* stop(): the flag is cleared by the window's thread
Stop ==
    /\ opc \in {"chunk", "assign", "gather"}
    /\ is_running
    /\ is_running' = FALSE
    /\ UNCHANGED <<self_cards, opc, accounts_n, cards_per_account,
                   thread_count, batch_start, idx, card_index,
                   card_usage_count, jobs, alloc>>
    /\ UNCHANGED poolVars
    /\ UNCHANGED <<storeVars, verifyVars, pipeVars>>

\* the frame of an action of run that emits finished_signal
SignalFrame ==
    UNCHANGED <<loaded, links, last, sheerlinkVars, workerVars, retryVars>>

\* lines 52-54: the head of the loop over the chunks; when the loop is
\* over _process_all returns, and the finally of run (lines 43-44) emits
\* finished_signal
ChunkStart ==
    /\ opc = "chunk"
    /\ IF batch_start >= accounts_n \/ ~is_running
       THEN /\ opc' = "finished"
            /\ finished_signal' = finished_signal + 1
       ELSE /\ opc' = "assign"
            /\ UNCHANGED finished_signal
    /\ idx' = 0
    /\ UNCHANGED <<self_cards, accounts_n, cards_per_account, thread_count,
                   is_running, batch_start, card_index, card_usage_count,
                   jobs, alloc>>
    /\ UNCHANGED poolVars
    /\ UNCHANGED <<storeVars, verifyVars>>
    /\ SignalFrame

\* _process_all at the head of a chunk that is to be handed out, where
\* its own code (the log lines 59-61) runs between two gathers
CanRaise == opc = "chunk" /\ batch_start < accounts_n /\ is_running

\* a run without the finally: an error of the loop ends it silently
LoopRaisesSilently ==
    /\ CanRaise
    /\ opc' = "raised"
    /\ UNCHANGED <<self_cards, accounts_n, cards_per_account, thread_count,
                   is_running, batch_start, idx, card_index, card_usage_count,
                   jobs, alloc>>
    /\ UNCHANGED poolVars
    /\ UNCHANGED <<storeVars, verifyVars, pipeVars>>

\* lines 37-44: _process_all raises, run logs the error in its except and
\* emits finished_signal in its finally
LoopRaises ==
    /\ CanRaise
    /\ opc' = "raised"
    /\ finished_signal' = finished_signal + 1
    /\ UNCHANGED <<self_cards, accounts_n, cards_per_account, thread_count,
                   is_running, batch_start, idx, card_index, card_usage_count,
                   jobs, alloc>>
    /\ UNCHANGED poolVars
    /\ UNCHANGED <<storeVars, verifyVars>>
    /\ SignalFrame

\* a rotation that comes one job late
RotateLate(ci, cu, per) ==
    IF cu > per THEN [card_index |-> ci + 1, card_usage_count |-> 0]
    ELSE [card_index |-> ci, card_usage_count |-> cu]

\* lines 69-72: the card in turn, and how often it was handed out
Rotate(ci, cu, per) ==
    IF cu >= per THEN [card_index |-> ci + 1, card_usage_count |-> 0]
    ELSE [card_index |-> ci, card_usage_count |-> cu]

\* the stored row of card id, as the assignment finds it
Stored(job, id) ==
    IF \E c \in cards : c.id = id
    THEN LET c == CHOOSE c \in cards : c.id = id
         IN [job |-> job, id |-> id, usage_count |-> c.usage_count,
             max_usage |-> c.max_usage, is_active |-> c.is_active]
    ELSE [job |-> job, id |-> id, usage_count |-> 0, max_usage |-> 0,
          is_active |-> 0]

\* lines 65-90: one pass of the loop that hands cards to the chunk
Assign ==
    /\ opc = "assign"
    /\ IF batch_start + idx >= BatchEnd
       THEN /\ opc' = "gather"
            /\ UNCHANGED <<idx, card_index, card_usage_count, jobs, alloc>>
       ELSE LET r == Rotate(card_index, card_usage_count, cards_per_account)
                j == batch_start + idx + 1
            IN /\ card_index' = r.card_index
               /\ IF r.card_index >= Len(self_cards)
                  THEN \* the cards are used up: break
                       /\ opc' = "gather"
                       /\ card_usage_count' = r.card_usage_count
                       /\ UNCHANGED <<idx, jobs, alloc>>
                  ELSE LET current_card == self_cards[r.card_index + 1]
                       IN /\ jobs' = [jobs EXCEPT ![j].stage = "task",
                                                  ![j].card = current_card.id]
                          /\ alloc' = Stored(j, current_card.id)
                          /\ card_usage_count' = r.card_usage_count + 1
                          /\ idx' = idx + 1
                          /\ UNCHANGED opc
    /\ UNCHANGED <<self_cards, accounts_n, cards_per_account, thread_count,
                   is_running, batch_start>>
    /\ UNCHANGED poolVars
    /\ UNCHANGED <<storeVars, verifyVars, pipeVars>>

\* a task that starts without looking at the flag
WrapperEnterUnchecked(j) ==
    /\ opc = "gather"
    /\ jobs[j].stage = "task"
    /\ jobs' = [jobs EXCEPT ![j].stage = "running"]
    /\ UNCHANGED <<self_cards, opc, accounts_n, cards_per_account,
                   thread_count, is_running, batch_start, idx, card_index,
                   card_usage_count, alloc>>
    /\ UNCHANGED poolVars
    /\ UNCHANGED <<storeVars, verifyVars, pipeVars>>

\* a task that reports a failure when it finds the flag cleared
WrapperEnterReportsStop(j) ==
    /\ opc = "gather"
    /\ jobs[j].stage = "task"
    /\ jobs' = [jobs EXCEPT
                    ![j].stage = IF is_running THEN "running" ELSE "returned",
                    ![j].events = IF is_running THEN @ ELSE <<"failed">>]
    /\ UNCHANGED <<self_cards, opc, accounts_n, cards_per_account,
                   thread_count, is_running, batch_start, idx, card_index,
                   card_usage_count, alloc>>
    /\ UNCHANGED poolVars
    /\ UNCHANGED <<storeVars, verifyVars, pipeVars>>

\* lines 98-99: a task starts and looks at the flag
WrapperEnter(j) ==
    /\ opc = "gather"
    /\ jobs[j].stage = "task"
    /\ jobs' = [jobs EXCEPT ![j].stage =
                    IF is_running THEN "running" ELSE "returned"]
    /\ UNCHANGED <<self_cards, opc, accounts_n, cards_per_account,
                   thread_count, is_running, batch_start, idx, card_index,
                   card_usage_count, alloc>>
    /\ UNCHANGED poolVars
    /\ UNCHANGED <<storeVars, verifyVars, pipeVars>>

\* lines 106-124: _process_single_account runs and returns, and the
\* wrapper reports the outcome without yielding in between; on success the
\* usage of the card of the task is incremented, unless the store raises
RunAccount(j) ==
    /\ opc = "gather"
    /\ jobs[j].stage = "running"
    /\ \E path \in ProcessSingleAccount, marked \in BOOLEAN, stored \in BOOLEAN :
          LET job == [jobs[j] EXCEPT
                        !.stage = "done",
                        !.path = path,
                        !.status = StatusWritten(path, @, marked),
                        !.outcome = WrapperOutcome(path),
                        !.events = @ \o ProgressEvents(path)]
          IN IF path.success /\ jobs[j].card # NoCard /\ stored
             THEN /\ cards' = IncrementCardUsage(cards, jobs[j].card)
                  /\ consumed_cards' = consumed_cards \cup Capped(cards')
                  /\ jobs' = [jobs EXCEPT ![j] = [job EXCEPT !.incs = @ + 1]]
             ELSE /\ jobs' = [jobs EXCEPT ![j] = job]
                  /\ UNCHANGED <<cards, consumed_cards>>
    /\ UNCHANGED <<self_cards, opc, accounts_n, cards_per_account,
                   thread_count, is_running, batch_start, idx, card_index,
                   card_usage_count, alloc>>
    /\ UNCHANGED <<card_seq, proxies, proxy_seq, queried, limit, answer,
                   used_proxies>>
    /\ UNCHANGED <<storeVars, verifyVars, pipeVars>>

\* tasks that are started and not awaited
GatherNotAwaited ==
    /\ opc = "gather"
    /\ batch_start' = batch_start + thread_count
    /\ opc' = "chunk"
    /\ UNCHANGED <<self_cards, accounts_n, cards_per_account, thread_count,
                   is_running, idx, card_index, card_usage_count, jobs, alloc>>
    /\ UNCHANGED poolVars
    /\ UNCHANGED <<storeVars, verifyVars, pipeVars>>

\* a gather that lets the failure of a task end the loop over the chunks
GatherRaises ==
    /\ opc = "gather"
    /\ \/ /\ \E j \in Chunk : jobs[j].stage = "done" /\ ~jobs[j].path.success
          /\ opc' = "finished"
       \/ /\ \A j \in Chunk : jobs[j].stage \in {"none", "returned", "done"}
          /\ \A j \in Chunk : jobs[j].stage = "done" => jobs[j].path.success
          /\ opc' = "chunk"
    /\ batch_start' = batch_start + thread_count
    /\ UNCHANGED <<self_cards, accounts_n, cards_per_account, thread_count,
                   is_running, idx, card_index, card_usage_count, jobs, alloc>>
    /\ UNCHANGED poolVars
    /\ UNCHANGED <<storeVars, verifyVars, pipeVars>>

\* lines 93-94: every task of the chunk is over, or there was none
GatherDone ==
    /\ opc = "gather"
    /\ \A j \in Chunk : jobs[j].stage \in {"none", "returned", "done"}
    /\ batch_start' = batch_start + thread_count
    /\ opc' = "chunk"
    /\ UNCHANGED <<self_cards, accounts_n, cards_per_account, thread_count,
                   is_running, idx, card_index, card_usage_count, jobs, alloc>>
    /\ UNCHANGED poolVars
    /\ UNCHANGED <<storeVars, verifyVars, pipeVars>>

BatchNext ==
    \/ ImportCard
    \/ LoadCards
    \/ StartProcessing
    \/ Stop
    \/ ChunkStart
    \/ Assign
    \/ \E j \in DOMAIN jobs : WrapperEnter(j)
    \/ \E j \in DOMAIN jobs : RunAccount(j)
    \/ GatherDone
    \/ LoopRaises

(***************************************************************************)
(*                          ACCOUNT PIPELINES                              *)
(* The three pipelines that move an account from status to status:        *)
(* process_browser (run_playwright_google.py), the verification worker    *)
(* of the SheerID window (sheerid_gui.py) and the pipeline of the          *)
(* all-in-one worker (auto_all_in_one_gui.py), each on the accounts table. *)
(***************************************************************************)
\* the values of an account line: those the account was imported with
LineValue == 0 * MaxCalls

\* the columns an account line carries without a link in front, and the
\* columns of the line "link----email" that _handle_link_ready builds
MaskAccount == {"password", "recovery_email", "secret_key"}
MaskLink == {"verification_link"}

\* AccountManager.save_link / move_to_*(line): `if email:` upsert_account
\* with the columns of the line and the status
MoveTo(tbl, e, mask, st) ==
    IF e = EmptyEmail THEN tbl
    ELSE Execute(tbl,
                 UpsertStatement(HasRow(tbl, e), MkArgs(e, mask, st, LineValue),
                                 variant),
                 now)

\* the status column of the record of e, None without a record
StoredStatus(tbl, e) == IF HasRow(tbl, e) THEN RowOf(tbl, e).status ELSE NoStatus

\* what check_google_one_status returns: a state, and with link_ready the
\* href of the link if there is one
Detected(state, link) == [state |-> state, link |-> link]
CheckGoogleOneStatus ==
    {Detected(s, FALSE) : s \in {"subscribed", "verified", "link_ready",
                                 "ineligible", "timeout"}}
    \cup {Detected("link_ready", TRUE)}
\* the page was never checked: the browser was not found or not opened, the
\* navigation failed three times, or an exception was raised on the way
NotDetected == Detected("none", FALSE)

\* lines 124-171 of _automate_login_and_extract: the table after the branch
\* of the detected state
AutomateLoginAndExtract(tbl, e, d) ==
    CASE d.state = "subscribed" -> MoveTo(tbl, e, MaskAccount, "subscribed")
      [] d.state = "verified" -> MoveTo(tbl, e, MaskAccount, "verified")
      [] d.state = "link_ready" /\ d.link -> MoveTo(tbl, e, MaskLine, "link_ready")
      [] d.state = "link_ready" /\ ~d.link -> MoveTo(tbl, e, MaskAccount, "verified")
      [] d.state = "ineligible" -> MoveTo(tbl, e, MaskAccount, "ineligible")
      [] d.state = "timeout" -> MoveTo(tbl, e, MaskAccount, "error")
      [] OTHER -> tbl

\* the result verify_batch returned for one id: a dict of the service with
\* a terminal step, whose message may or may not hold the word
\* "successfully", a result made up by the client, or no entry for the id
Worded(step) == [ServiceData(step) EXCEPT !.message = "successfully"]
NoResult == [currentStep |-> NoKey, status |-> NoKey, message |-> NoKey]
VerifyResults ==
    {ServiceData("success"), Worded("success"), ServiceData("error"),
     PollTimeoutResult, HttpErrorResult, NoResult}

\* VerifyWorker.run line 50: res.get("currentStep") or res.get("status")
WorkerStatus(res) == IF res.currentStep # NoKey THEN res.currentStep ELSE res.status

\* _handle_link_ready lines 377-388: the id has an entry, and its status is
\* "success" or its message holds "successfully" (no dict of the client or
\* of the service carries the key "success")
ReadsAsSuccess(res) ==
    /\ res # NoResult
    /\ res.status = "success" \/ res.message = "successfully"

\* a pipeline run: which pipeline, on which account, the stored status
\* before it, what was detected, the result of verify_batch and what the
\* pipeline made of it, and how the bind stage ended
Run(op, e, before, d, res, verify, bind) ==
    [op |-> op, email |-> e, before |-> before, detected |-> d.state,
     link |-> d.link, result |-> res, verify |-> verify, bind |-> bind]
NoRun == Run("none", EmptyEmail, NoStatus, NotDetected, NoResult, "none", "none")

\* the six counters of stats, all 0
Categories == {"link_unverified", "link_verified", "subscribed",
               "ineligible", "timeout", "error"}
NoStats == [c \in Categories |-> 0 * MaxJobs]

\* how execute_with_retry ended: it has not, it returned the value of a
\* call of func, it returned None, or it raised the error of a call, with
\* call 0 for the Exception it makes up itself
Ended(kind, k) == [kind |-> kind, call |-> k]
NotEnded == Ended("running", 0 * MaxRetries)

PipeInit ==
    /\ loaded = {}
    /\ links = {}
    /\ last = NoRun
    /\ task_pc = "idle"
    /\ task_running = TRUE
    /\ max_workers = 1
    /\ future_to_id = <<>>
    /\ finished_tasks = 0 * MaxJobs
    /\ stats = NoStats
    /\ worker_pc = "idle"
    /\ worker_running = TRUE
    /\ batches = <<>>
    /\ batch_idx = 0 * MaxSelected
    /\ calls = <<>>
    /\ finished_signal = 0 * MaxJobs
    /\ retry_pc = "idle"
    /\ base_running = TRUE
    /\ is_paused = FALSE
    /\ max_retries = 0 * MaxRetries
    /\ delay_ms = 0 * MaxRetries
    /\ attempt = 0 * MaxRetries
    /\ last_error = 0 * MaxRetries
    /\ elapsed = 0 * MaxRetries
    /\ func_calls = <<>>
    /\ retry_result = NotEnded
    /\ npauses = 0 * MaxPauses

\* load_accounts of the all-in-one window: the accounts that are neither
\* subscribed nor ineligible
LoadAccounts ==
    /\ loaded' = {r.email : r \in {x \in accounts :
                                      x.status \notin {"subscribed", "ineligible"}}}
    /\ UNCHANGED <<links, last>>
    /\ UNCHANGED <<sheerlinkVars, workerVars, finished_signal,
                   retryVars>>
    /\ UNCHANGED <<storeVars, verifyVars, poolVars, batchVars>>

\* load_data of the SheerID window: the link_ready accounts with a link
LoadData ==
    /\ links' = {r.email : r \in {x \in accounts :
                                     /\ x.status = "link_ready"
                                     /\ x.verification_link # None}}
    /\ UNCHANGED <<loaded, last>>
    /\ UNCHANGED <<sheerlinkVars, workerVars, finished_signal,
                   retryVars>>
    /\ UNCHANGED <<storeVars, verifyVars, poolVars, batchVars>>

\* process_browser(browser_id) for the browser of an account
ProcessBrowser ==
    /\ \E e \in Emails \cup {EmptyEmail} :
       \E d \in CheckGoogleOneStatus \cup {NotDetected} :
          /\ accounts' = AutomateLoginAndExtract(accounts, e, d)
          /\ last' = Run("process_browser", e, StoredStatus(accounts, e), d,
                         NoResult, "none", "none")
    /\ UNCHANGED <<variant, lock, pc, call, exists, pre, hist, now, ncalls>>
    /\ UNCHANGED <<loaded, links>>
    /\ UNCHANGED <<sheerlinkVars, workerVars, finished_signal,
                   retryVars>>
    /\ UNCHANGED <<verifyVars, poolVars, batchVars>>

\* VerifyWorker.run lines 47-63, for one row of the table and the result of
\* its id
VerifyWorkerRun ==
    /\ \E e \in links : \E res \in VerifyResults \ {NoResult} :
          /\ accounts' = IF WorkerStatus(res) = "success"
                         THEN MoveTo(accounts, e, MaskLine, "verified")
                         ELSE accounts
          /\ last' = Run("verify_worker", e, StoredStatus(accounts, e),
                         Detected("none", TRUE), res,
                         IF WorkerStatus(res) = "success" THEN "success"
                         ELSE "failed", "none")
    /\ UNCHANGED <<variant, lock, pc, call, exists, pre, hist, now, ncalls>>
    /\ UNCHANGED <<loaded, links>>
    /\ UNCHANGED <<sheerlinkVars, workerVars, finished_signal,
                   retryVars>>
    /\ UNCHANGED <<verifyVars, poolVars, batchVars>>

\* the table after _process_single_account went down path for account e:
\* save_link and move_to_verified of _handle_link_ready, then
\* move_to_subscribed of auto_bind_card
PipelineWrites(tbl, e, path, marked) ==
    LET saved == IF path.verify \in {"success", "failed"}
                 THEN MoveTo(tbl, e, MaskLink, "link_ready") ELSE tbl
        verified == IF path.verify = "success"
                    THEN MoveTo(saved, e, MaskLink, "verified") ELSE saved
    IN IF StatusWritten(path, NoStatus, marked) = "subscribed"
       THEN MoveTo(verified, e, MaskAccount, "subscribed")
       ELSE verified

\* _process_single_account for a loaded account: verify_batch is called on
\* the paths with an extracted link, and the path goes on to the bind stage
\* if its result reads as a success
AllInOneRun ==
    /\ \E e \in loaded : \E path \in ProcessSingleAccount :
       \E res \in VerifyResults : \E marked \in BOOLEAN :
          /\ path.verify \in {"success", "failed"} =>
                path.verify = IF ReadsAsSuccess(res) THEN "success" ELSE "failed"
          /\ path.verify \notin {"success", "failed"} => res = NoResult
          /\ accounts' = PipelineWrites(accounts, e, path, marked)
          /\ last' = Run("all_in_one", e, StoredStatus(accounts, e),
                         Detected(path.detected, path.verify \in {"success", "failed"}),
                         res, path.verify, path.bind)
    /\ UNCHANGED <<variant, lock, pc, call, exists, pre, hist, now, ncalls>>
    /\ UNCHANGED <<loaded, links>>
    /\ UNCHANGED <<sheerlinkVars, workerVars, finished_signal,
                   retryVars>>
    /\ UNCHANGED <<verifyVars, poolVars, batchVars>>

PipeNext ==
    \/ LoadAccounts
    \/ LoadData
    \/ ProcessBrowser
    \/ VerifyWorkerRun
    \/ AllInOneRun

(***************************************************************************)
(*                      THE LINK EXTRACTION TASK                           *)
(* WorkerThread.run_sheerlink: process_browser is run for every id in a    *)
(* thread pool, and the results are counted by category as they come in.   *)
(***************************************************************************)
\* a message, as the set of the words run_sheerlink looks for that it
\* holds; the words written in Chinese in the source are named here by
\* their meaning: cn_extracted ("extraction succeeded"), cn_bound ("card
\* bound"), cn_ineligible ("no eligibility"), cn_timeout ("timed out")
Words == {"Verified", "Get Offer", "Link Found", "cn_extracted", "Subscribed",
          "cn_bound", "cn_ineligible", "Not Available", "cn_timeout", "Timeout"}

\* what a run of process_browser ends with: the outcome of the account, the
\* message returned, and whether the call raised instead of returning
Result(outcome, msg, raised) ==
    [outcome |-> outcome, msg |-> msg, raised |-> raised]

\* lines 127-171 of _automate_login_and_extract: the message returned for
\* the detected state
DetectedResult(d) ==
    CASE d.state = "subscribed" ->
           Result("subscribed", {"cn_bound", "Subscribed"}, FALSE)
      [] d.state = "verified" ->
           Result("verified", {"Get Offer"}, FALSE)
      [] d.state = "link_ready" /\ d.link ->
           Result("link_ready", {"cn_extracted", "Link Found"}, FALSE)
      [] d.state = "link_ready" /\ ~d.link ->
           Result("link_ready", {}, FALSE)
      [] d.state = "ineligible" ->
           Result("ineligible", {"cn_ineligible", "Not Available"}, FALSE)
      [] OTHER ->
           Result("timeout", {"cn_timeout"}, FALSE)

\* the runs that never get to the check of the page: the browser is not
\* found or not opened or the navigation fails (a fixed message), an
\* exception is caught in the automation (its text is returned, which for a
\* Playwright timeout holds "Timeout"), or process_browser itself raises
UndetectedResults ==
    {Result("error", {}, FALSE), Result("error", {"Timeout"}, FALSE),
     Result("error", {}, TRUE)}

\* process_browser for a detection d
ProcessBrowserResults(d) ==
    IF d = NotDetected THEN UndetectedResults ELSE {DetectedResult(d)}

\* lines 125-136: the category a returned message is counted in
CountedAs(msg) ==
    IF "Verified" \in msg \/ "Get Offer" \in msg THEN "link_verified"
    ELSE IF "Link Found" \in msg \/ "cn_extracted" \in msg THEN "link_unverified"
    ELSE IF "Subscribed" \in msg \/ "cn_bound" \in msg THEN "subscribed"
    ELSE IF "cn_ineligible" \in msg \/ "Not Available" \in msg THEN "ineligible"
    ELSE IF "cn_timeout" \in msg \/ "Timeout" \in msg THEN "timeout"
    ELSE "error"

\* lines 119-140: the category of a result, one that raised included
Category(res) == IF res.raised THEN "error" ELSE CountedAs(res.msg)

\* a future: queued, running, done, cancelled, or collected by the loop
\* over as_completed; result: what process_browser ended with; counted: the
\* category the result was counted in
NoResultYet == Result("none", {}, FALSE)
NewFuture == [state |-> "queued", result |-> NoResultYet, counted |-> "none"]

\* the account of the k-th browser
BrowserEmail(k) == IF k = 1 THEN FirstEmail ELSE OtherEmail

\* lines 68-98: the task is started with n ids and a pool of some size
RunSheerlink ==
    /\ task_pc = "idle"
    /\ task_pc' = "submit"
    /\ max_workers' \in 1..MaxConcurrency
    /\ future_to_id' = <<>>
    /\ finished_tasks' = 0
    /\ stats' = NoStats
    /\ UNCHANGED task_running
    /\ UNCHANGED <<loaded, links, last, workerVars, finished_signal,
                   retryVars>>
    /\ UNCHANGED <<storeVars, verifyVars, poolVars, batchVars>>

\* stop(): the flag is cleared by the window's thread
StopTask ==
    /\ task_pc \in {"submit", "collect"}
    /\ task_running
    /\ task_running' = FALSE
    /\ UNCHANGED <<task_pc, max_workers, future_to_id, finished_tasks, stats>>
    /\ UNCHANGED <<loaded, links, last, workerVars, finished_signal,
                   retryVars>>
    /\ UNCHANGED <<storeVars, verifyVars, poolVars, batchVars>>

\* lines 100-107: the next id is submitted to the pool, or the loop ends:
\* at the last id, or at a cleared flag
Submit ==
    /\ task_pc = "submit"
    /\ \/ /\ task_running
          /\ Len(future_to_id) < MaxJobs
          /\ future_to_id' = Append(future_to_id, NewFuture)
          /\ UNCHANGED task_pc
       \/ /\ ~task_running \/ Len(future_to_id) >= 1
          /\ task_pc' = "collect"
          /\ UNCHANGED future_to_id
    /\ UNCHANGED <<task_running, max_workers, finished_tasks, stats>>
    /\ UNCHANGED <<loaded, links, last, workerVars, finished_signal,
                   retryVars>>
    /\ UNCHANGED <<storeVars, verifyVars, poolVars, batchVars>>

\* the futures a thread of the pool is running
RunningFutures == {k \in DOMAIN future_to_id : future_to_id[k].state = "running"}

\* a free thread of the pool takes a queued future
FutureStart(k) ==
    /\ task_pc \in {"submit", "collect", "report"}
    /\ future_to_id[k].state = "queued"
    /\ Cardinality(RunningFutures) < max_workers
    /\ future_to_id' = [future_to_id EXCEPT ![k].state = "running"]
    /\ UNCHANGED <<task_pc, task_running, max_workers, finished_tasks, stats>>
    /\ UNCHANGED <<loaded, links, last, workerVars, finished_signal,
                   retryVars>>
    /\ UNCHANGED <<storeVars, verifyVars, poolVars, batchVars>>

\* process_browser(bid) runs in its thread: the account is written as in
\* ProcessBrowser and the future gets the result
FutureDone(k) ==
    /\ future_to_id[k].state = "running"
    /\ \E d \in CheckGoogleOneStatus \cup {NotDetected} :
       \E res \in ProcessBrowserResults(d) :
          /\ accounts' = AutomateLoginAndExtract(accounts, BrowserEmail(k), d)
          /\ last' = Run("process_browser", BrowserEmail(k),
                         StoredStatus(accounts, BrowserEmail(k)), d,
                         NoResult, "none", "none")
          /\ future_to_id' = [future_to_id EXCEPT ![k].state = "done",
                                                  ![k].result = res]
    /\ UNCHANGED <<task_pc, task_running, max_workers, finished_tasks, stats>>
    /\ UNCHANGED <<variant, lock, pc, call, exists, pre, hist, now, ncalls>>
    /\ UNCHANGED <<loaded, links, workerVars, finished_signal,
                   retryVars>>
    /\ UNCHANGED <<verifyVars, poolVars, batchVars>>

\* executor.shutdown(wait=False, cancel_futures=True)
CancelFutures(futures) ==
    [k \in DOMAIN futures |->
        IF futures[k].state = "queued"
        THEN [futures[k] EXCEPT !.state = "cancelled"] ELSE futures[k]]

\* lines 110-140: as_completed hands over a future that is done; at a
\* cleared flag the loop is left, else the result is counted
Collect ==
    /\ task_pc = "collect"
    /\ \E k \in DOMAIN future_to_id :
          /\ future_to_id[k].state = "done"
          /\ IF ~task_running
             THEN /\ future_to_id' = CancelFutures(future_to_id)
                  /\ task_pc' = "report"
                  /\ UNCHANGED <<finished_tasks, stats>>
             ELSE LET c == Category(future_to_id[k].result)
                  IN /\ finished_tasks' = finished_tasks + 1
                     /\ stats' = [stats EXCEPT ![c] = @ + 1]
                     /\ future_to_id' =
                            [future_to_id EXCEPT ![k].state = "collected",
                                                 ![k].counted = c]
                     /\ UNCHANGED task_pc
    /\ UNCHANGED <<task_running, max_workers>>
    /\ UNCHANGED <<loaded, links, last, workerVars, finished_signal,
                   retryVars>>
    /\ UNCHANGED <<storeVars, verifyVars, poolVars, batchVars>>

\* every future was handed over: the loop over as_completed ends
CollectEnd ==
    /\ task_pc = "collect"
    /\ \A k \in DOMAIN future_to_id : future_to_id[k].state = "collected"
    /\ task_pc' = "report"
    /\ UNCHANGED <<task_running, max_workers, future_to_id, finished_tasks,
                   stats>>
    /\ UNCHANGED <<loaded, links, last, workerVars, finished_signal,
                   retryVars>>
    /\ UNCHANGED <<storeVars, verifyVars, poolVars, batchVars>>

\* lines 142-161: the pool is left, which waits for the running futures,
\* and the summary is emitted with finished_signal
Summary ==
    /\ task_pc = "report"
    /\ \A k \in DOMAIN future_to_id :
          future_to_id[k].state \notin {"queued", "running"}
    /\ task_pc' = "reported"
    /\ UNCHANGED <<task_running, max_workers, future_to_id, finished_tasks,
                   stats>>
    /\ UNCHANGED <<loaded, links, last, workerVars, finished_signal,
                   retryVars>>
    /\ UNCHANGED <<storeVars, verifyVars, poolVars, batchVars>>

SheerlinkNext ==
    \/ RunSheerlink
    \/ StopTask
    \/ Submit
    \/ \E k \in DOMAIN future_to_id : FutureStart(k)
    \/ \E k \in DOMAIN future_to_id : FutureDone(k)
    \/ Collect
    \/ CollectEnd
    \/ Summary

(***************************************************************************)
(*                       THE VERIFICATION WORKER                           *)
(* VerifyWorker.run: the selected ids are cut into batches, and            *)
(* verify_batch is called for one batch after the other.                   *)
(***************************************************************************)
\* tasks[i:i + 5]
BatchSize == 5

\* tasks is the list of the selected ids; an id is named by its place in it
Min(a, b) == IF a < b THEN a ELSE b

\* slices that overlap by one id
SlicesOverlapping(n) ==
    [b \in 1..((n + BatchSize - 1) \div BatchSize) |->
        (IF b = 1 THEN 1 ELSE (b - 1) * BatchSize)..Min(b * BatchSize, n)]

\* line 34: [tasks[i:i + 5] for i in range(0, len(tasks), 5)] for n tasks
Slices(n) ==
    [b \in 1..((n + BatchSize - 1) \div BatchSize) |->
        ((b - 1) * BatchSize + 1)..Min(b * BatchSize, n)]

\* the account of a selected row: the table of the model holds the records
\* of two accounts, and a row of any other account changes none of them
ItemEmail(k) ==
    IF k = 1 THEN FirstEmail ELSE IF k = 2 THEN OtherEmail ELSE EmptyEmail

\* lines 49-59: move_to_verified(item['line']) for every id of the batch
\* whose result has the status success
MoveVerified(tbl, ok) ==
    LET first == IF 1 \in ok THEN MoveTo(tbl, ItemEmail(1), MaskLine, "verified")
                 ELSE tbl
    IN IF 2 \in ok THEN MoveTo(first, ItemEmail(2), MaskLine, "verified")
       ELSE first

\* a call of verify_batch by the worker: the ids passed, whether it has
\* returned, and whether stop() had been called when it was made
Call(ids, stopped) == [ids |-> ids, returned |-> FALSE, stopped |-> stopped]

\* start_verify and lines 29-34 of run: the worker is made for the checked
\* rows, of which there is at least one, and cuts them into batches
StartVerify ==
    /\ worker_pc = "idle"
    /\ \E n \in 1..MaxSelected : batches' = Slices(n)
    /\ worker_running' = TRUE
    /\ batch_idx' = 0
    /\ calls' = <<>>
    /\ worker_pc' = "loop"
    /\ UNCHANGED <<loaded, links, last, sheerlinkVars, finished_signal,
                   retryVars>>
    /\ UNCHANGED <<storeVars, verifyVars, poolVars, batchVars>>

\* stop(): the flag is cleared by the window's thread
StopWorker ==
    /\ worker_pc \in {"loop", "call"}
    /\ worker_running
    /\ worker_running' = FALSE
    /\ UNCHANGED <<worker_pc, batches, batch_idx, calls>>
    /\ UNCHANGED <<loaded, links, last, sheerlinkVars, finished_signal,
                   retryVars>>
    /\ UNCHANGED <<storeVars, verifyVars, poolVars, batchVars>>

\* lines 40-47: the head of the loop; the next batch is passed to
\* verify_batch unless the flag is cleared or no batch is left
NextBatch ==
    /\ worker_pc = "loop"
    /\ IF batch_idx >= Len(batches) \/ ~worker_running
       THEN /\ worker_pc' = "finished"
            /\ UNCHANGED calls
       ELSE /\ worker_pc' = "call"
            /\ calls' = Append(calls, Call(batches[batch_idx + 1],
                                           ~worker_running))
    /\ UNCHANGED <<worker_running, batches, batch_idx>>
    /\ UNCHANGED <<loaded, links, last, sheerlinkVars, finished_signal,
                   retryVars>>
    /\ UNCHANGED <<storeVars, verifyVars, poolVars, batchVars>>

\* lines 47-63: verify_batch returns and the results are gone through: the
\* ids in ok are those with the status success
BatchReturns ==
    /\ worker_pc = "call"
    /\ \E ok \in SUBSET calls[Len(calls)].ids :
          accounts' = MoveVerified(accounts, ok)
    /\ calls' = [calls EXCEPT ![Len(calls)].returned = TRUE]
    /\ batch_idx' = batch_idx + 1
    /\ worker_pc' = "loop"
    /\ UNCHANGED <<worker_running, batches>>
    /\ UNCHANGED <<variant, lock, pc, call, exists, pre, hist, now, ncalls>>
    /\ UNCHANGED <<loaded, links, last, sheerlinkVars, finished_signal,
                   retryVars>>
    /\ UNCHANGED <<verifyVars, poolVars, batchVars>>

WorkerNext ==
    \/ StartVerify
    \/ StopWorker
    \/ NextBatch
    \/ BatchReturns

(***************************************************************************)
(*                           ACCOUNT IMPORT                                *)
(* DBManager.import_from_browsers and import_accounts_from_text: accounts  *)
(* come into the table from the remarks of the browser windows and from    *)
(* pasted text.                                                            *)
(***************************************************************************)
\* the values of the remark of a browser window, and the id of the window
RemarkValue == 1

\* the columns a remark or a text line can carry besides the email; a
\* column the line does not carry is None or '' after parsing, and both
\* are false in the tests of the import
RemarkMasks == {{}, {"password"}, {"password", "secret_key"}, MaskAccount}
TextMasks == {{"password"}, {"password", "secret_key"}, MaskAccount, MaskLine}

\* a browser of the list: its id (None when the entry has none) and the
\* account its remark parses to
Browser(id, e, mask) == [id |-> id, email |-> e, mask |-> mask]
Browsers ==
    {Browser(id, e, mask) :
        id \in {None, Val("browser_id", RemarkValue)},
        e \in Emails \cup {EmptyEmail}, mask \in RemarkMasks}

\* lines 1016-1036: the UPDATE of an existing record sets browser_id,
\* password and secret_key where the stored value is false and, for the
\* last two, the remark has one
BrowserUpdates(row, b) ==
    (IF row.browser_id = None THEN {"browser_id"} ELSE {})
    \cup {f \in {"password", "secret_key"} : row[f] = None /\ f \in b.mask}

\* lines 1011-1055: the statement _run_import executes for a browser, given
\* the record of its email
BrowserStatement(tbl, b) ==
    LET a == MkArgs(b.email, b.mask, NoStatus, RemarkValue)
    IN IF HasRow(tbl, b.email)
       THEN LET cols == BrowserUpdates(RowOf(tbl, b.email), b)
            IN IF cols # {}
               THEN [kind |-> "update", email |-> b.email,
                     set |-> [f \in cols |->
                                IF f = "browser_id" THEN b.id ELSE a[f]]]
               ELSE NoStmt
       ELSE [kind |-> "insert", email |-> b.email,
             row |-> [email |-> b.email, password |-> a.password,
                      recovery_email |-> a.recovery_email,
                      secret_key |-> a.secret_key,
                      verification_link |-> None, browser_id |-> b.id,
                      status |-> "pending_check", message |-> None]]

\* the UPDATE of the import does not set updated_at
ExecuteImport(tbl, stmt, ts) ==
    IF stmt.kind = "update"
    THEN {IF r.email = stmt.email
          THEN [f \in DOMAIN r |->
                  IF f \in DOMAIN stmt.set THEN stmt.set[f] ELSE r[f]]
          ELSE r : r \in tbl}
    ELSE Execute(tbl, stmt, ts)

\* one turn of the loop of _run_import over the browsers of a page: entries
\* without a remark or an id and remarks without an email are passed over,
\* and an error of the database is printed with nothing committed
ImportFromBrowsers ==
    /\ \E b \in Browsers, raised \in BOOLEAN :
          accounts' = IF b.id = None \/ b.email = EmptyEmail \/ raised
                      THEN accounts
                      ELSE ExecuteImport(accounts,
                                         BrowserStatement(accounts, b), now)
    /\ UNCHANGED <<variant, lock, pc, call, exists, pre, hist, now, ncalls>>
    /\ UNCHANGED <<verifyVars, poolVars, batchVars, pipeVars>>

\* one line of import_accounts_from_text: upsert_account with the columns
\* of the line and status=default_status
ImportAccountsFromText ==
    /\ \E e \in Emails, mask \in TextMasks :
          accounts' = MoveTo(accounts, e, mask, DefaultStatus("core"))
    /\ UNCHANGED <<variant, lock, pc, call, exists, pre, hist, now, ncalls>>
    /\ UNCHANGED <<verifyVars, poolVars, batchVars, pipeVars>>

ImportNext ==
    \/ ImportFromBrowsers
    \/ ImportAccountsFromText
    \/ ProcessBrowser

(***************************************************************************)
(*                           THE STORE LOCK                                *)
(* Every operation of DBManager does its work on the database inside       *)
(* `with lock:`; here upsert_account is joined by export_to_files, init_db *)
(* and increment_card_usage, called from any thread.                       *)
(***************************************************************************)
\* a database that may still be empty: the program was just installed
FreshInit ==
    /\ variant \in {"core", "root"}
    /\ accounts \in {{}, {ImportedRow}}
    /\ lock = NoThread
    /\ pc = [t \in Threads |-> "idle"]
    /\ call = [t \in Threads |-> NoCall]
    /\ exists = [t \in Threads |-> FALSE]
    /\ pre = [t \in Threads |-> {}]
    /\ hist = <<>>
    /\ now = 0 * MaxCalls
    /\ ncalls = 0 * MaxCalls

\* the operations besides upsert_account, and where a thread is in one:
\* before its `with lock:` and inside it
LockedOps == {"export", "init", "pool"}
Before(op) == op \o "_lock"
Inside(op) == op

\* update_status(email, status): upsert_account with the status alone
UpdateStatus(t) ==
    /\ pc[t] = "idle"
    /\ FirstIdle(t)
    /\ ncalls < MaxCalls
    /\ Enter(t, MkArgs(FirstEmail, MaskStatusOnly, "verified", ncalls + 1))

\* export_to_files, init_db or increment_card_usage is called
LockedCall(t, op) ==
    /\ pc[t] = "idle"
    /\ FirstIdle(t)
    /\ ncalls < MaxCalls
    /\ pc' = [pc EXCEPT ![t] = Before(op)]
    /\ ncalls' = ncalls + 1
    /\ UNCHANGED <<variant, accounts, lock, call, exists, pre, hist, now>>
    /\ UNCHANGED <<verifyVars, poolVars, batchVars, pipeVars>>

\* `with lock:` of the operation is entered
LockedAcquire(t, op) ==
    /\ pc[t] = Before(op)
    /\ LockAvailable
    /\ lock' = t
    /\ pc' = [pc EXCEPT ![t] = Inside(op)]
    /\ UNCHANGED <<variant, accounts, call, exists, pre, hist, now, ncalls>>
    /\ UNCHANGED <<verifyVars, poolVars, batchVars, pipeVars>>

\* export_to_files lines 895-941: the rows are read and the files written
\* inside the with block; it is left at its end or by an exception (of
\* sqlite, or of open), which `except Exception` prints
ExportReturns(t) ==
    /\ pc[t] = Inside("export")
    /\ lock' = NoThread
    /\ pc' = [pc EXCEPT ![t] = "idle"]
    /\ UNCHANGED <<variant, accounts, call, exists, pre, hist, now, ncalls>>
    /\ UNCHANGED <<verifyVars, poolVars, batchVars, pipeVars>>

\* increment_card_usage: the UPDATE is committed, or sqlite raises and the
\* exception leaves the with block and the call
PoolReturns(t) ==
    /\ pc[t] = Inside("pool")
    /\ \E id \in 1..MaxCards, raised \in BOOLEAN :
          cards' = IF raised THEN cards ELSE IncrementCardUsage(cards, id)
    /\ lock' = NoThread
    /\ pc' = [pc EXCEPT ![t] = "idle"]
    /\ UNCHANGED <<variant, accounts, call, exists, pre, hist, now, ncalls>>
    /\ UNCHANGED <<card_seq, proxies, proxy_seq, queried, limit, answer,
                   consumed_cards, used_proxies>>
    /\ UNCHANGED <<verifyVars, batchVars, pipeVars>>

\* the first line import_from_files passes to upsert_account
FileLine == MkArgs(FirstEmail, MaskAccount, "pending_check", LineValue)

\* an init_db that imports the files before it leaves the with block
InitImportsInside(t) ==
    /\ pc[t] = Inside("init")
    /\ IF variant = "root" /\ accounts = {}
       THEN /\ pc' = [pc EXCEPT ![t] = "lock"]
            /\ call' = [call EXCEPT ![t] = FileLine]
            /\ UNCHANGED lock
       ELSE /\ pc' = [pc EXCEPT ![t] = "idle"]
            /\ lock' = NoThread
            /\ UNCHANGED call
    /\ UNCHANGED <<variant, accounts, exists, pre, hist, now, ncalls>>
    /\ UNCHANGED <<verifyVars, poolVars, batchVars, pipeVars>>

\* init_db: the tables are created and the with block is left (by an
\* exception too); src/database.py lines 46-49 then call import_from_files
\* if the table is empty, which passes the lines of the files to
\* upsert_account, if there is a file
InitReturns(t) ==
    /\ pc[t] = Inside("init")
    /\ lock' = NoThread
    /\ IF variant = "root" /\ accounts = {}
       THEN \E file \in BOOLEAN :
               IF file
               THEN /\ pc' = [pc EXCEPT ![t] = "lock"]
                    /\ call' = [call EXCEPT ![t] = FileLine]
               ELSE /\ pc' = [pc EXCEPT ![t] = "idle"]
                    /\ UNCHANGED call
       ELSE /\ pc' = [pc EXCEPT ![t] = "idle"]
            /\ UNCHANGED call
    /\ UNCHANGED <<variant, accounts, exists, pre, hist, now, ncalls>>
    /\ UNCHANGED <<verifyVars, poolVars, batchVars, pipeVars>>

\* the steps a thread takes by itself once it is inside a call
Proceed(t) ==
    \/ Acquire(t)
    \/ Select(t)
    \/ Write(t)
    \/ Release(t)
    \/ ReturnUnwritten(t)
    \/ \E op \in LockedOps : LockedAcquire(t, op)
    \/ ExportReturns(t)
    \/ PoolReturns(t)
    \/ InitReturns(t)

LockNext ==
    \E t \in Threads :
        \/ UpdateStatus(t)
        \/ \E op \in LockedOps : LockedCall(t, op)
        \/ PersistenceFailure(t)
        \/ Proceed(t)

(***************************************************************************)
(*                      BaseWorker.execute_with_retry                      *)
(* func is called until it returns, with an interruptible sleep between    *)
(* the attempts, while stop(), pause() and resume() are called from the    *)
(* thread of the window.                                                   *)
(***************************************************************************)
\* interval of msleep_interruptible
Interval == 100
\* the delays of the model: none, less than an interval, more than one
Delays == {0, 50, 150}

\* a call of func: how it ended, and whether stop() had been requested
\* when it was made
FuncCall(stopped) == [ended |-> "running", stopped |-> stopped]

RetryFrame ==
    /\ UNCHANGED <<loaded, links, last, sheerlinkVars, workerVars,
                   finished_signal>>
    /\ UNCHANGED <<storeVars, verifyVars, poolVars, batchVars>>

\* execute_with_retry(func, max_retries, delay_ms) is called
ExecuteWithRetry ==
    /\ retry_pc = "idle"
    /\ max_retries' \in 0..MaxRetries
    /\ delay_ms' \in Delays
    /\ attempt' = 0
    /\ last_error' = 0
    /\ retry_pc' = "attempt"
    /\ UNCHANGED <<base_running, is_paused, elapsed, func_calls, retry_result,
                   npauses>>
    /\ RetryFrame

\* stop(), pause() and resume()
StopBase ==
    /\ retry_pc # "ended"
    /\ base_running
    /\ base_running' = FALSE
    /\ UNCHANGED <<retry_pc, is_paused, max_retries, delay_ms, attempt,
                   last_error, elapsed, func_calls, retry_result, npauses>>
    /\ RetryFrame

Pause ==
    /\ retry_pc # "ended"
    /\ ~is_paused
    /\ npauses < MaxPauses
    /\ is_paused' = TRUE
    /\ npauses' = npauses + 1
    /\ UNCHANGED <<retry_pc, base_running, max_retries, delay_ms, attempt,
                   last_error, elapsed, func_calls, retry_result>>
    /\ RetryFrame

Resume ==
    /\ retry_pc # "ended"
    /\ is_paused
    /\ is_paused' = FALSE
    /\ UNCHANGED <<retry_pc, base_running, max_retries, delay_ms, attempt,
                   last_error, elapsed, func_calls, retry_result, npauses>>
    /\ RetryFrame

\* what the last line raises: last_error, or an Exception of its own
RaiseLastError == Ended("raised", last_error)

\* an attempt that calls func without a look at the flag
AttemptUnchecked ==
    /\ retry_pc = "attempt"
    /\ IF attempt >= max_retries
       THEN /\ retry_result' = RaiseLastError
            /\ retry_pc' = "ended"
            /\ UNCHANGED func_calls
       ELSE /\ func_calls' = Append(func_calls, FuncCall(~base_running))
            /\ retry_pc' = "call"
            /\ UNCHANGED retry_result
    /\ UNCHANGED <<base_running, is_paused, max_retries, delay_ms, attempt,
                   last_error, elapsed, npauses>>
    /\ RetryFrame

\* lines 137-142 and 150: the head of the loop; after the last attempt the
\* error is raised, a stopped worker returns None, and otherwise func is
\* called
Attempt ==
    /\ retry_pc = "attempt"
    /\ IF attempt >= max_retries
       THEN /\ retry_result' = RaiseLastError
            /\ retry_pc' = "ended"
            /\ UNCHANGED func_calls
       ELSE IF ~base_running
            THEN /\ retry_result' = Ended("none", 0)
                 /\ retry_pc' = "ended"
                 /\ UNCHANGED func_calls
            ELSE /\ func_calls' = Append(func_calls, FuncCall(~base_running))
                 /\ retry_pc' = "call"
                 /\ UNCHANGED retry_result
    /\ UNCHANGED <<base_running, is_paused, max_retries, delay_ms, attempt,
                   last_error, elapsed, npauses>>
    /\ RetryFrame

\* lines 142-148: func returns, and its value is returned, or it raises:
\* the error is kept and logged, and before another attempt the worker
\* sleeps
FuncEnds ==
    /\ retry_pc = "call"
    /\ \E raises \in BOOLEAN :
          IF raises
          THEN /\ func_calls' = [func_calls EXCEPT ![attempt + 1].ended = "raised"]
               /\ last_error' = attempt + 1
               /\ IF attempt < max_retries - 1
                  THEN /\ retry_pc' = "sleep"
                       /\ elapsed' = 0
                       /\ UNCHANGED attempt
                  ELSE /\ retry_pc' = "attempt"
                       /\ attempt' = attempt + 1
                       /\ UNCHANGED elapsed
               /\ UNCHANGED retry_result
          ELSE /\ func_calls' = [func_calls EXCEPT ![attempt + 1].ended = "returned"]
               /\ retry_result' = Ended("returned", attempt + 1)
               /\ retry_pc' = "ended"
               /\ UNCHANGED <<attempt, last_error, elapsed>>
    /\ UNCHANGED <<base_running, is_paused, max_retries, delay_ms, npauses>>
    /\ RetryFrame

\* lines 105 and 116 of msleep_interruptible, and 147-148 of the caller:
\* the test of the outer loop; when the sleep is over the next attempt
\* follows, and None is returned if the worker was stopped
SleepTest ==
    /\ retry_pc = "sleep"
    /\ IF elapsed < delay_ms /\ base_running
       THEN /\ retry_pc' = "paused"
            /\ UNCHANGED <<attempt, retry_result>>
       ELSE IF base_running
            THEN /\ retry_pc' = "attempt"
                 /\ attempt' = attempt + 1
                 /\ UNCHANGED retry_result
            ELSE /\ retry_pc' = "ended"
                 /\ retry_result' = Ended("none", 0)
                 /\ UNCHANGED attempt
    /\ UNCHANGED <<base_running, is_paused, max_retries, delay_ms, last_error,
                   elapsed, func_calls, npauses>>
    /\ RetryFrame

\* lines 107-111: the test of the inner loop, which sleeps while the worker
\* is paused, and the return of False to a caller that returns None
PausedTest ==
    /\ retry_pc = "paused"
    /\ IF is_paused /\ base_running
       THEN /\ retry_pc' = "paused_sleep"
            /\ UNCHANGED retry_result
       ELSE IF ~base_running
            THEN /\ retry_pc' = "ended"
                 /\ retry_result' = Ended("none", 0)
            ELSE /\ retry_pc' = "tick"
                 /\ UNCHANGED retry_result
    /\ UNCHANGED <<base_running, is_paused, max_retries, delay_ms, attempt,
                   last_error, elapsed, func_calls, npauses>>
    /\ RetryFrame

\* line 108: self.msleep(100) of the inner loop
PausedSleep ==
    /\ retry_pc = "paused_sleep"
    /\ retry_pc' = "paused"
    /\ UNCHANGED <<base_running, is_paused, max_retries, delay_ms, attempt,
                   last_error, elapsed, func_calls, retry_result, npauses>>
    /\ RetryFrame

\* lines 113-114: self.msleep(min(interval, ms - elapsed)); elapsed += interval
Tick ==
    /\ retry_pc = "tick"
    /\ elapsed' = elapsed + Interval
    /\ retry_pc' = "sleep"
    /\ UNCHANGED <<base_running, is_paused, max_retries, delay_ms, attempt,
                   last_error, func_calls, retry_result, npauses>>
    /\ RetryFrame

\* the steps of the thread that runs execute_with_retry
RetryStep ==
    \/ Attempt
    \/ FuncEnds
    \/ SleepTest
    \/ PausedTest
    \/ PausedSleep
    \/ Tick

RetryNext ==
    \/ ExecuteWithRetry
    \/ StopBase
    \/ Pause
    \/ Resume
    \/ RetryStep

(***************************************************************************)
(*                           SPECIFICATIONS                                *)
(***************************************************************************)
\* the components as they are when the program has started
Start == StoreInit /\ VerifyInit /\ PoolInit /\ BatchInit /\ PipeInit

\* one DBManager module, its callers' threads and its accounts table
StoreSpec == Start /\ [][StoreNext]_vars

\* the core DBManager with one SheerIDVerifier object
StartCore == Start /\ variant = "core"

VerifySpec == StartCore /\ [][VerifyNext]_vars

\* the poll loop of _poll_status, entered from the stream of a first batch
StartStream ==
    StoreInit /\ variant = "core" /\ StreamInit /\ PoolInit /\ BatchInit /\ PipeInit

PollSpec == StartStream /\ [][PollNext]_vars

\* every request of the poll loop has a timeout and the pause between two
\* attempts is finite, so an attempt that is due is eventually made
PollFairSpec == PollSpec /\ WF_vars(PollAttempt \/ PollExhausted)

\* the poll loop, with cancel_verification called on the object meanwhile
CancelSpec == StartStream /\ [][CancelNext]_vars

PoolSpec == StartCore /\ [][PoolNext]_vars

BatchSpec == StartCore /\ [][BatchNext]_vars

\* the pipelines, run one after the other on the accounts table
PipelineSpec == StartCore /\ [][PipeNext]_vars

\* the link extraction task of the main window
SheerlinkSpec == StartCore /\ [][SheerlinkNext]_vars

\* the verification worker of the SheerID window
WorkerSpec == StartCore /\ [][WorkerNext]_vars

\* the imports, next to the pipeline that moves the accounts on
ImportSpec == StartCore /\ [][ImportNext]_vars

\* the operations under the store lock, on a database that may be empty
StartLock == FreshInit /\ VerifyInit /\ PoolInit /\ BatchInit /\ PipeInit
LockSpec == StartLock /\ [][LockNext]_vars
\* a thread inside a call is scheduled again and again
LockFairSpec == LockSpec /\ \A t \in Threads : WF_vars(Proceed(t))

RetrySpec == StartCore /\ [][RetryNext]_vars
\* the thread of the worker runs on, and func returns or raises
RetryFairSpec == RetrySpec /\ WF_vars(RetryStep)

(***************************************************************************)
(*                        JOB STORE: THE CLAIMS                            *)
(***************************************************************************)
\* the columns an argument of upsert_account can set
ArgColumns == DataFields \cup {"status"}
\* the argument for column f was passed as not None
Supplied(a, f) == IF f = "status" THEN a.status # NoStatus ELSE a[f] # None
\* rows other than the one of email e
Others(tbl, e) == {r \in tbl : r.email # e}
\* the job fields of a record
JobFields == {"password", "recovery_email", "secret_key", "verification_link",
              "status", "message"}
JobRecord(r) == [f \in JobFields |-> r[f]]
\* the primary key holds: at most one row per email
OneRowPerEmail(tbl) ==
    \A r1 \in tbl : \A r2 \in tbl : r1.email = r2.email => r1 = r2

\* the effect of one upsert on the table, for the columns in cols
FrameOn(before, after, a, cols) ==
    /\ Others(after, a.email) = Others(before, a.email)
    /\ OneRowPerEmail(after)
    /\ HasRow(after, a.email)
    /\ HasRow(before, a.email) =>
          \A f \in cols :
              RowOf(after, a.email)[f] =
                  IF f \in ArgColumns /\ Supplied(a, f) THEN a[f]
                  ELSE RowOf(before, a.email)[f]
    /\ ~HasRow(before, a.email) => Cardinality(after) = Cardinality(before) + 1

C4_UpsertIdempotent ==
    \A t \in Threads :
        ( /\ pc[t] = "release"
          /\ Len(hist) >= 2
          /\ hist[Len(hist)].args = hist[Len(hist) - 1].args )
        => JobRecord(RowOf(accounts, call[t].email)) =
               JobRecord(RowOf(pre[t], call[t].email))

\* the last committed upsert for email e that passed column f
LastSupplier(e, f) ==
    LET S == {i \in 1..Len(hist) :
                hist[i].args.email = e /\ Supplied(hist[i].args, f)}
    IN IF S = {} THEN 0
       ELSE CHOOSE i \in S : \A j \in S : j <= i

\* upserts for email e raced: one committed while another was waiting
Raced(e) == \E i \in 1..Len(hist) : hist[i].args.email = e /\ hist[i].conc

\* C5: after concurrent upserts for one email every field holds the value
\* of the last committed writer that passed it, no call is lost, and the
\* email has one record
C5_LastWriterWins ==
    /\ \A t \in Threads : pc[t] # "integrity_error"
    /\ OneRowPerEmail(accounts)
    /\ \A e \in Emails :
          Raced(e) =>
            /\ HasRow(accounts, e)
            /\ \A f \in ArgColumns :
                  LastSupplier(e, f) # 0 =>
                      RowOf(accounts, e)[f] = hist[LastSupplier(e, f)].args[f]

\* C6: the status of every record is one of the six pipeline statuses
C6_StatusInEnum == \A r \in accounts : r.status \in Statuses

(***************************************************************************)
(*                    VERIFICATION CLIENT: THE CLAIMS                      *)
(***************************************************************************)
\* C1: the map verify_batch returns has exactly the submitted ids as keys
C1_ResultForEveryId == vpc = "done" => DOMAIN results = verification_ids

\* C2: _poll_status issues at most 60 status requests, and a poll loop that
\* was entered is left
C2_PollTerminates ==
    /\ [](poll_requests <= MaxPollAttempts)
    /\ (vpc = "poll") ~> (vpc # "poll")

\* C2 witness: the poll loop returned the timeout result after 60 requests
\* that brought a fresh check token
C2_Witness ==
    /\ vpc = "polled"
    /\ poll_requests = MaxPollAttempts
    /\ check_token = AnswerToken
    /\ results[poll_vid] = PollTimeoutResult

\* the outcome a result carries: the status of a result the client made
\* up, the currentStep of a dict of the service
ResultStatus(r) == IF r.status # NoKey THEN r.status ELSE r.currentStep

\* the call is over and has returned exactly one result, for v, with status
SingleResult(v, status) ==
    /\ DOMAIN results = {v}
    /\ ResultStatus(results[v]) = status

\* C19: verify_batch([v]) whose first event for v has currentStep success
\* returns one result, for v, with status success, and no status request
\* was made
C19_FirstEventSuccess ==
    \A v \in Vids :
        /\ vpc = "done"
        /\ verification_ids = {v}
        /\ first_event.step = "success"
        => SingleResult(v, "success") /\ poll_log = <<>>

\* C20: verify_batch([v]) in which just two status requests were made, both
\* for v, the first answered with a non-terminal step and the second with
\* currentStep error, returns one result, for v, with status error
C20_PendingThenError ==
    \A v \in Vids :
        /\ vpc = "done"
        /\ verification_ids = {v}
        /\ poll_log = <<[vid |-> v, ans |-> "nonterminal"],
                        [vid |-> v, ans |-> "error"]>>
        => SingleResult(v, "error")

(***************************************************************************)
(*                      CARD / PROXY POOL: THE CLAIMS                      *)
(***************************************************************************)
\* the rows of a returned list
Rows(list) == {list[i] : i \in 1..Len(list)}
\* the proxies not marked used
Unused == {p \in proxies : p.is_used = 0}

\* the answer of get_available_cards: exactly the active cards below their
\* cap, each once, by usage_count then id, none of them consumed before
CardAnswerExact ==
    /\ Rows(answer) =
          {c \in cards : c.is_active = 1 /\ c.usage_count < c.max_usage}
    /\ \A i \in 1..Len(answer) : \A j \in 1..Len(answer) :
          i < j =>
            \/ answer[i].usage_count < answer[j].usage_count
            \/ /\ answer[i].usage_count = answer[j].usage_count
               /\ answer[i].id < answer[j].id
    /\ \A i \in 1..Len(answer) : answer[i].id \notin consumed_cards

\* the answer of get_available_proxies holds unused proxies only, in id
\* order, none of them marked used before
ProxyAnswerSound ==
    /\ Rows(answer) \subseteq Unused
    /\ \A i \in 1..Len(answer) : \A j \in 1..Len(answer) :
          i < j => answer[i].id < answer[j].id
    /\ \A i \in 1..Len(answer) : answer[i].id \notin used_proxies

\* C9 as stated: get_available_cards returns exactly the active cards below
\* their cap by usage_count then id, get_available_proxies returns exactly
\* the unused proxies in id order, whatever its limit argument, and a
\* consumed card or used proxy is in no later answer
C9_AvailableExactAnyLimit ==
    /\ queried = "cards" => CardAnswerExact
    /\ queried = "proxies" => ProxyAnswerSound /\ Rows(answer) = Unused

\* C9 amended: get_available_cards returns exactly the active cards below
\* their cap by usage_count then id; get_available_proxies returns the
\* unused proxies in id order, all of them when called without a limit and
\* the first limit of them otherwise; a consumed card or used proxy is in no
\* later answer
C9_AvailableExact ==
    /\ queried = "cards" => CardAnswerExact
    /\ queried = "proxies" =>
          /\ ProxyAnswerSound
          /\ limit = 0 => Rows(answer) = Unused
          /\ limit # 0 =>
                /\ Len(answer) = IF limit < Cardinality(Unused)
                                 THEN limit ELSE Cardinality(Unused)
                /\ \A p \in Unused \ Rows(answer) :
                      \A i \in 1..Len(answer) : answer[i].id < p.id

\* C9 witness: get_available_cards answered with the newer card first,
\* it being less used, while a proxy is marked used
C9_Witness ==
    /\ queried = "cards"
    /\ Len(answer) = 2
    /\ answer[1].id > answer[2].id
    /\ used_proxies # {}

(***************************************************************************)
(*                      BATCH ORCHESTRATOR: THE CLAIMS                     *)
(***************************************************************************)
\* C7: when a card is assigned to a job its stored usage_count is below its
\* max_usage and the card is active
C7_AssignedBelowCap ==
    alloc.job # 0 =>
        alloc.usage_count < alloc.max_usage /\ alloc.is_active = 1

\* C8: usage_count <= max_usage for every stored card
C8_UsageWithinCap == \A c \in cards : c.usage_count <= c.max_usage

\* C10: the usage of a job's card is incremented at most once for the job,
\* and only if the bind stage of the job reported success
C10_IncrementOnlyAfterBind ==
    \A j \in DOMAIN jobs :
        /\ jobs[j].incs <= 1
        /\ jobs[j].incs > 0 => jobs[j].path.bind \in {"bound", "already_bound"}

\* the jobs that were handed the card at position p of self.cards and have
\* consumed it (its usage was incremented for them) or may still do so
ConsumersOf(p) ==
    {j \in DOMAIN jobs :
        /\ jobs[j].card = self_cards[p].id
        /\ jobs[j].incs > 0 \/ jobs[j].stage \in {"task", "running"}}

\* C11: the rotation has moved past a card only if cards_per_account jobs
\* consumed it; a job that was handed the card and resolved without consuming
\* it does not count towards the rotation
C11_RotateAfterConsumed ==
    \A p \in 1..Len(self_cards) :
        p <= card_index => Cardinality(ConsumersOf(p)) >= cards_per_account

\* the batch has run to its end without stop() and the cards were used up
ExhaustedBatch ==
    opc = "finished" /\ is_running /\ card_index >= Len(self_cards)

\* C12: once the cards are used up, a job that was handed no card is never
\* attempted and is reported with the outcome ResourceExhausted; the jobs
\* that were handed a card still run to their outcome
C12_ExhaustedJobsReported ==
    ExhaustedBatch =>
        \A j \in DOMAIN jobs :
            IF jobs[j].card = NoCard
            THEN /\ jobs[j].path = NoPath
                 /\ jobs[j].outcome = "resource_exhausted"
            ELSE jobs[j].stage = "done"

\* a batch of k jobs on k loaded cards of max_usage 1, one job per card,
\* never stopped, in which every job that is over had its bind succeed
OneCardEach ==
    /\ opc \in {"chunk", "assign", "gather", "finished"}
    /\ is_running
    /\ cards_per_account = 1
    /\ Len(self_cards) = accounts_n
    /\ \A p \in 1..Len(self_cards) : self_cards[p].max_usage = 1
    /\ \A j \in DOMAIN jobs :
          jobs[j].stage = "done" =>
              jobs[j].path.bind \in {"bound", "already_bound"}

\* the increment of every job that is over was stored
UsageStored == \A j \in DOMAIN jobs : jobs[j].stage = "done" => jobs[j].incs = 1

\* the jobs run in consecutive chunks of thread_count jobs
ChunksInOrder ==
    /\ batch_start % thread_count = 0
    /\ \A j \in DOMAIN jobs :
          /\ jobs[j].stage \in {"task", "running"} => j \in Chunk
          /\ j <= batch_start => jobs[j].stage = "done"

DistinctCards ==
    \A i, j \in DOMAIN jobs :
        i # j /\ jobs[i].card # NoCard => jobs[i].card # jobs[j].card

PoolEmptyAfterwards == opc = "finished" => GetAvailableCards(cards) = <<>>

ChunkOf(j) == (j - 1) \div thread_count

\* a task was made for the job / the job is over or was never attempted
Started(job) == job.stage \in {"task", "running", "returned", "done"}
Resolved(job) == job.stage \in {"none", "returned", "done"}

\* C14: when a job of a chunk has started, every job of every earlier chunk
\* is over, whether it succeeded or failed
C14_ChunkBarrier ==
    \A i, j \in DOMAIN jobs :
        ChunkOf(i) < ChunkOf(j) /\ Started(jobs[j]) => Resolved(jobs[i])

C14_Witness ==
    /\ Len(jobs) = 2 /\ thread_count = 1
    /\ jobs[1].stage = "done" /\ ~jobs[1].path.success
    /\ jobs[2].stage = "running"

\* the jobs for which a task exists that is not over
InFlight == {j \in DOMAIN jobs : jobs[j].stage \in {"task", "running"}}

\* C15: at most thread_count jobs are in flight
C15_BoundedFanOut == Cardinality(InFlight) <= thread_count

C15_Witness ==
    /\ opc = "gather"
    /\ accounts_n > thread_count
    /\ Cardinality(InFlight) = thread_count
    /\ \E j \in InFlight : jobs[j].stage = "running"

\* C16: whatever the other jobs did, a job in flight is never abandoned (its
\* chunk is still being gathered), and a run that was not stopped ends only
\* when every job has run to its outcome or found the cards used up
C16_FailureIsolated ==
    /\ \A j \in InFlight : opc \in {"assign", "gather"} /\ j \in Chunk
    /\ opc = "finished" /\ is_running =>
          \A j \in DOMAIN jobs :
              \/ jobs[j].stage = "done"
              \/ jobs[j].card = NoCard /\ card_index >= Len(self_cards)

\* a job raised, a job of the same chunk and a job of the next chunk ran on
C16_Witness ==
    /\ opc = "finished" /\ is_running
    /\ Len(jobs) = 2
    /\ jobs[1].stage = "done" /\ jobs[1].path.session = "raised"
    /\ jobs[2].stage = "done" /\ jobs[2].path.success

\* the pipeline of the job raised or ended in a failure that is not the
\* verdict "ineligible"
Unrecoverable(job) ==
    job.stage = "done" /\ ~job.path.success /\ job.path.detected # "ineligible"

\* C17: a job whose pipeline raised or failed unrecoverably has the status
\* error in the accounts table and a reported outcome, and the batch loop
\* goes on gathering its chunk
C17_FailureStoredAsError ==
    \A j \in DOMAIN jobs :
        Unrecoverable(jobs[j]) =>
            /\ jobs[j].status = "error"
            /\ jobs[j].outcome # "none"
            /\ opc \in {"gather", "chunk", "assign", "finished"}

\* C18: while the flag is cleared no chunk is started and no job begins
\* its pipeline; a job in flight is not interrupted: its next step is the
\* report of its outcome
C18_StopHonoured ==
    [][~is_running =>
          /\ opc = "chunk" => opc' # "assign"
          /\ \A j \in DOMAIN jobs :
                /\ jobs'[j].stage = "running" => jobs[j].stage = "running"
                /\ jobs[j].stage = "running" =>
                      \/ jobs'[j] = jobs[j]
                      \/ jobs'[j].stage = "done" /\ jobs'[j].outcome # "none"]_vars

\* the flag was cleared when job 1 was in flight and before job 2 began:
\* job 2 has returned at once, job 1 is still running
C18_Witness ==
    /\ ~is_running
    /\ opc = "gather"
    /\ Len(jobs) = 2
    /\ jobs[1].stage = "running"
    /\ jobs[2].stage = "returned"

(***************************************************************************)
(*               VERIFICATION CLIENT: TOKEN AND SUBMISSION                 *)
(***************************************************************************)
\* no token was obtained in the current call: the token of the object is not
\* the one a refresh of this call would have stored
NoTokenAcquired == csrf_token # nbatches

\* C21: in a verify_batch call in which no token could be obtained the batch
\* POST is issued all the same, and it carries no X-CSRF-Token header,
\* whatever earlier calls on the object did
C21_NoTokenHeaderAfterFailure ==
    nbatches > 0 /\ NoTokenAcquired =>
        /\ vpc \in {"stream", "poll", "polled", "refresh", "done"} => posts >= 1
        /\ posts >= 1 => sent_token = NoToken

\* every submitted id has a result, and it is an error result
AllErrors(res) ==
    /\ DOMAIN res = verification_ids
    /\ \A v \in verification_ids : ResultStatus(res[v]) = "error"

\* C22: after a 401 / 403 the token is refreshed once and the batch is sent
\* once more, so a call makes at most two batch POSTs and the second one
\* only after a refresh of this call succeeded; a refresh that fails ends the
\* call with an error result for every submitted id and no second POST, and
\* so does a second POST that is rejected
C22_RefreshOnceResendOnce ==
    /\ [](/\ posts <= 2
          /\ vpc \in {"refresh", "repost"} => posts = 1
          /\ posts = 2 => csrf_token = nbatches /\ sent_token = nbatches)
    /\ [][/\ vpc = "refresh" /\ vpc' = "done" => posts' = 1 /\ AllErrors(results')
          /\ vpc = "refresh" /\ vpc' # "done" => vpc' = "repost"
          /\ vpc = "repost" /\ vpc' # "stream" =>
                posts' = 2 /\ vpc' = "done" /\ AllErrors(results')]_vars

\* C22 witness: the batch was sent again with the refreshed token of the
\* second call on the object and rejected again
C22_Witness ==
    /\ vpc = "done"
    /\ posts = 2
    /\ nbatches = 2
    /\ sent_token = nbatches
    /\ verification_ids = {"V1", "V2"}
    /\ results = ErrorMap(verification_ids, HttpErrorResult)

(***************************************************************************)
(*                    JOB STORE: PERSISTENCE FAILURES                      *)
(***************************************************************************)
\* positions of a call whose statement raised inside the with block
Failed == {"db_error", "integrity_error"}

\* C23: a persistence failure inside upsert_account does not reach the
\* caller: the lock is released, the table is as it was when the call took
\* the lock, and the call returns, after which its thread is free for the
\* next stage
C23_PersistenceFailureSwallowed ==
    /\ [](\A t \in Threads : pc[t] \in Failed => lock # t)
    /\ [][\A t \in Threads :
            /\ pc[t] \notin Failed /\ pc'[t] \in Failed =>
                  /\ accounts' = accounts
                  /\ accounts' = pre[t]
                  /\ lock' = NoThread
            /\ pc[t] \in Failed /\ pc'[t] # pc[t] => pc'[t] = "idle"]_vars

\* C23 witness: a statement of one call raised, and the lock is already held
\* by another call for the same email
C23_Witness ==
    \E t \in Threads : \E u \in Threads :
        /\ pc[t] = "db_error"
        /\ lock = u
        /\ pc[u] = "write"
        /\ call[u].email = call[t].email

(***************************************************************************)
(*                     ACCOUNT PIPELINES: THE CLAIMS                       *)
(***************************************************************************)
\* C24: a pipeline run on an account whose stored status was subscribed or
\* ineligible leaves that status as it was
C24_TerminalStatusKept ==
    last.before \in {"subscribed", "ineligible"} =>
        StoredStatus(accounts, last.email) = last.before

\* the run went through verify_batch for the link of its account and the
\* result for the id has the terminal step success
VerifiedByService ==
    /\ last.op \in {"all_in_one", "verify_worker"}
    /\ last.link
    /\ last.result.currentStep = "success"

\* C25: when the result of verify_batch for the id of the account has the
\* terminal step success, the account is moved to verified in the accounts
\* table and the all-in-one pipeline goes on to the bind stage; a
\* verification failure is reported only for a result that is not a success
C25_SuccessMovesToVerified ==
    /\ VerifiedByService =>
          /\ last.verify = "success"
          /\ StoredStatus(accounts, last.email) \in {"verified", "subscribed"}
          /\ last.op = "all_in_one" => last.bind # "none"
    /\ last.verify = "failed" => last.result.currentStep # "success"

\* C26: when the all-in-one pipeline reports the bind stage of an account as
\* successful, the stored status of the account is subscribed afterwards,
\* whether the bind stage was entered from the detected state verified or
\* after a successful verification from link_ready
C26_BoundIsSubscribed ==
    /\ last.op = "all_in_one"
    /\ last.bind \in {"bound", "already_bound"}
    => StoredStatus(accounts, last.email) = "subscribed"

(***************************************************************************)
(*                 VERIFICATION CLIENT: CANCELLATION                       *)
(***************************************************************************)
\* the state of the poll loop of verify_batch
pollState == <<vpc, poll_vid, poll_i, check_token, poll_requests, results,
               poll_log, nlines>>

\* C27: cancel_verification always returns a value: the JSON body of the
\* service when the cancel POST was answered with one, an error result when
\* the POST failed or its answer was not JSON; and a call of it leaves the
\* poll loop of verify_batch as it is
C27_CancelIsBestEffort ==
    /\ [](/\ cancel_result.post = "json" => cancel_result.ret = CancelAck
          /\ cancel_result.post \in {"not_json", "failure", "not_sent"} =>
                ResultStatus(cancel_result.ret) = "error")
    /\ [][cancel_result' # cancel_result \/ csrf_token' # csrf_token =>
              UNCHANGED pollState]_vars

\* C27 witness: a cancel POST was acknowledged during a poll loop, which is
\* still running and has made two status requests
C27_Witness ==
    /\ vpc = "poll"
    /\ poll_requests = 2
    /\ cancel_result = Cancelled("json", CancelAck)

\* the status the detect stage is to store for a detected state
StatusOfDetected(state) == IF state = "timeout" THEN "error" ELSE state

\* C28: after process_browser has detected the state of an account, the
\* stored status of the account is the detected state (error for a timeout),
\* for link_ready with or without an extracted link
C28_DetectedIsStored ==
    /\ last.op = "process_browser"
    /\ last.detected # "none"
    /\ last.email # EmptyEmail
    => StoredStatus(accounts, last.email) = StatusOfDetected(last.detected)

(***************************************************************************)
(*              VERIFICATION CLIENT: RESULTS AND POLLING                   *)
(***************************************************************************)
\* C29: within one verify_batch call a result that was recorded for an id,
\* from an event of the stream or from the poll loop, is never changed by a
\* later event of the stream
C29_TerminalResultFinal ==
    [][vpc' # "csrf" =>
          \A v \in DOMAIN results :
              /\ v \in DOMAIN results'
              /\ results'[v] = results[v]]_vars

\* the answer to the latest status request, while the log still holds it
LastLogged == poll_log[Len(poll_log)]
LogHoldsLatest == poll_log # <<>> /\ poll_log # <<More>>

\* C30: in _poll_status an attempt that timed out, failed or brought no
\* JSON leaves the loop running; a terminal step that comes on a later
\* attempt is what the loop returns; and the client-side timeout result is
\* returned only when all 60 attempts were made
C30_TransientRetried ==
    /\ LogHoldsLatest /\ LastLogged.ans = "no_answer" =>
          vpc = "poll" /\ poll_vid = LastLogged.vid
    /\ vpc = "polled" =>
          IF results[poll_vid] = PollTimeoutResult
          THEN poll_i = MaxPollAttempts /\ poll_requests = MaxPollAttempts
          ELSE /\ Terminal(results[poll_vid].currentStep)
               /\ LogHoldsLatest =>
                     LastLogged = [vid |-> poll_vid,
                                   ans |-> results[poll_vid].currentStep]

\* C30 witness: the first status request timed out or failed, the second
\* was answered with success, and that answer is what the loop returned
C30_Witness ==
    /\ vpc = "polled"
    /\ poll_log = <<[vid |-> poll_vid, ans |-> "no_answer"],
                    [vid |-> poll_vid, ans |-> "success"]>>
    /\ results[poll_vid] = ServiceData("success")

(***************************************************************************)
(*               VERIFICATION CLIENT: THE TIMEOUT RESULT                   *)
(***************************************************************************)
\* the result of a poll loop that ran out of attempts (line 212), and a
\* terminal error reported by the service (lines 165-167, 191-192)
ExhaustedResult(r) == r = PollTimeoutResult
ServiceErrorResult(r) == r.currentStep = "error"

\* C31: in the map verify_batch builds, the result of an id whose poll loop
\* ran out of attempts and the result of an id for which the service
\* reported a terminal error have different statuses
C31_TimeoutToldApart ==
    \A v \in DOMAIN results : \A w \in DOMAIN results :
        ExhaustedResult(results[v]) /\ ServiceErrorResult(results[w])
            => ResultStatus(results[v]) # ResultStatus(results[w])

(***************************************************************************)
(*                 BATCH ORCHESTRATOR: STAGES AND EVENTS                   *)
(***************************************************************************)
\* the states that end a job at the detect stage, and the value
\* _process_single_account returns for each (lines 213-223)
EndsAtDetect == {"subscribed", "ineligible", "error"}
DetectOutcome(state) == IF state = "subscribed" THEN "completed" ELSE "failed"

\* the batch has run to its end without stop()
BatchOver == opc = "finished" /\ is_running

\* C32: in a batch that ran to its end without stop(), whatever the card
\* list holds, every job went through session establishment and, when the
\* login succeeded, state detection; and a job detected as subscribed,
\* ineligible or error ended there, with the outcome of that state and
\* without a bind
C32_CardOnlyForBind ==
    BatchOver =>
        \A j \in DOMAIN jobs :
            /\ jobs[j].stage = "done"
            /\ jobs[j].path.session # "none"
            /\ jobs[j].path.session = "ok" => jobs[j].path.detected # "none"
            /\ jobs[j].path.detected \in EndsAtDetect =>
                  /\ jobs[j].path.bind = "none"
                  /\ jobs[j].outcome = DetectOutcome(jobs[j].path.detected)

\* the bind operation (auto_bind_card) was invoked in the run of a job
BindInvoked(job) == job.path.bind # "none"

FinalEvents == {"completed", "failed", "error"}
FinalsOf(job) == {k \in 1..Len(job.events) : job.events[k] \in FinalEvents}

\* the job began its pipeline: the wrapper found the flag set (lines 98-99)
Began(job) == job.stage \in {"running", "done"}

Collected == {k \in DOMAIN future_to_id : future_to_id[k].state = "collected"}

\* the categories that match a result: eligible-unverified for link_ready,
\* verified, subscribed, ineligible and timeout for these outcomes, and
\* error for a run that failed (timeout also fits one that failed with a
\* timeout of the browser)
Matching(res) ==
    CASE res.outcome = "link_ready" -> {"link_unverified"}
      [] res.outcome = "verified" -> {"link_verified"}
      [] res.outcome = "subscribed" -> {"subscribed"}
      [] res.outcome = "ineligible" -> {"ineligible"}
      [] res.outcome = "timeout" -> {"timeout"}
      [] OTHER -> IF "Timeout" \in res.msg THEN {"timeout", "error"}
                  ELSE {"error"}

StatsTotal ==
    stats["link_unverified"] + stats["link_verified"] + stats["subscribed"]
    + stats["ineligible"] + stats["timeout"] + stats["error"]

\* C35: in run_sheerlink every job whose result was taken is counted in
\* exactly one category of stats, one that matches its outcome, so the
\* counts sum to finished_tasks, the number of these jobs, at every moment
\* of the run, also after stop() and for a job that raised
C35_CountedByOutcome ==
    /\ finished_tasks = Cardinality(Collected)
    /\ StatsTotal = finished_tasks
    /\ \A c \in Categories :
          stats[c] = Cardinality({k \in Collected : future_to_id[k].counted = c})
    /\ \A k \in Collected :
          future_to_id[k].counted \in Matching(future_to_id[k].result)

(***************************************************************************)
(*                  THE VERIFICATION WORKER: THE BATCHES                   *)
(***************************************************************************)
\* the calls that carried the id at place k, and the selected ids
CallsWith(k) == {c \in DOMAIN calls : k \in calls[c].ids}
SelectedIds == UNION {batches[b] : b \in DOMAIN batches}

\* C36: no verify_batch call of the worker carries more than 5 ids; the
\* calls carry consecutive ids in the order of the selection, no id twice;
\* a call is made only when the call before it has returned, and never
\* after stop(); and when the worker was not stopped and has finished,
\* every selected id was carried by exactly one call
C36_BatchesOfFive ==
    /\ \A c \in DOMAIN calls :
          /\ Cardinality(calls[c].ids) <= BatchSize
          /\ calls[c].ids = batches[c]
          /\ ~calls[c].stopped
          /\ c < Len(calls) => calls[c].returned
    /\ \A k \in SelectedIds : Cardinality(CallsWith(k)) <= 1
    /\ \A c, d \in DOMAIN calls :
          c < d => \A k \in calls[c].ids : \A m \in calls[d].ids : k < m
    /\ worker_pc = "finished" /\ worker_running =>
          \A k \in SelectedIds : Cardinality(CallsWith(k)) = 1

\* C36 witness: eleven ids were selected and the worker, not stopped, has
\* finished after three calls, of five, five and one id
C36_Witness ==
    /\ worker_pc = "finished"
    /\ worker_running
    /\ Len(calls) = 3
    /\ calls[1].ids = 1..5 /\ calls[2].ids = 6..10 /\ calls[3].ids = {11}
    /\ \A c \in DOMAIN calls : calls[c].returned

\* the run of the worker is over: _process_all has returned or raised
RunOver == opc \in {"finished", "raised"}

\* C37: every run of the worker emits finished_signal exactly once, and
\* only when no job of it is still in progress: the signal has been
\* emitted once when the run is over and never before, whether the loop
\* went through every account, was stopped, ran out of cards or raised.
C37_FinishedOnce ==
    /\ finished_signal <= 1
    /\ RunOver <=> finished_signal = 1
    /\ finished_signal = 1 =>
          \A j \in DOMAIN jobs : jobs[j].stage \notin {"task", "running"}

\* the loop raised at the head of the second chunk, after a job was run
C37_Witness ==
    /\ opc = "raised"
    /\ finished_signal = 1
    /\ \E j \in DOMAIN jobs : jobs[j].stage = "done"
    /\ \E j \in DOMAIN jobs : jobs[j].stage = "none"

\* the other ends of a run: every account done, stopped, out of cards
C37_Completed ==
    /\ opc = "finished" /\ is_running /\ finished_signal = 1
    /\ \A j \in DOMAIN jobs : jobs[j].stage = "done"
C37_Stopped ==
    /\ opc = "finished" /\ ~is_running /\ finished_signal = 1
    /\ \E j \in DOMAIN jobs : jobs[j].stage = "returned"
C37_OutOfCards ==
    /\ opc = "finished" /\ is_running /\ finished_signal = 1
    /\ card_index >= Len(self_cards)
    /\ \E j \in DOMAIN jobs : jobs[j].stage = "none"

\* the record of e in tbl keeps its progress in tbl2
ProgressKept(tbl, tbl2, e) ==
    /\ HasRow(tbl2, e)
    /\ \A f \in {"status", "message", "verification_link"} :
          RowOf(tbl2, e)[f] = RowOf(tbl, e)[f]

\* the record of e in tbl is only filled in tbl2: of its other columns
\* only browser_id, password and secret_key may differ, and only where
\* nothing was stored
OnlyFilled(tbl, tbl2, e) ==
    /\ HasRow(tbl2, e)
    /\ \A f \in DataFields :
          RowOf(tbl2, e)[f] # RowOf(tbl, e)[f] =>
             /\ f \in {"browser_id", "password", "secret_key"}
             /\ RowOf(tbl, e)[f] = None

\* the records that are new in tbl2 are pending_check
CreatedPending(tbl, tbl2) ==
    \A r \in tbl2 : ~HasRow(tbl, r.email) => r.status = "pending_check"

\* a step of import_from_browsers keeps the progress of every record,
\* only fills it, and makes new records pending_check
C38_BrowserImportFills ==
    [][ImportFromBrowsers =>
          /\ \A r \in accounts :
                /\ ProgressKept(accounts, accounts', r.email)
                /\ OnlyFilled(accounts, accounts', r.email)
          /\ CreatedPending(accounts, accounts')]_vars

\* the status of the record of e in tbl is the same in tbl2
StatusKept(tbl, tbl2, e) ==
    HasRow(tbl2, e) /\ RowOf(tbl2, e).status = RowOf(tbl, e).status

\* C38: importing accounts never resets the progress of the pipeline: a
\* step of import_from_browsers or of import_accounts_from_text leaves the
\* status of every existing record as it was; import_from_browsers also
\* leaves message and verification_link, fills browser_id, password and
\* secret_key only where nothing is stored, and makes the records it
\* creates pending_check.
C38_ImportKeepsProgress ==
    [][ImportFromBrowsers \/ ImportAccountsFromText =>
          /\ \A r \in accounts : StatusKept(accounts, accounts', r.email)
          /\ ImportFromBrowsers =>
                /\ \A r \in accounts :
                      /\ ProgressKept(accounts, accounts', r.email)
                      /\ OnlyFilled(accounts, accounts', r.email)
                /\ CreatedPending(accounts, accounts')]_vars

\* an import filled a record that the pipeline had moved on
C38_Filled ==
    \E r \in accounts :
       /\ r.status = "subscribed"
       /\ r.browser_id = Val("browser_id", RemarkValue)

\* thread t waits for the store lock, and thread t is inside a with block
Waiting(t) == pc[t] \in {"lock"} \cup {Before(op) : op \in LockedOps}
Holding(t) == pc[t] \in {"select", "write", "release"}
                        \cup {Inside(op) : op \in LockedOps}

\* no thread waits for the lock it holds, the lock is held only inside a
\* with block, and a thread inside a with block holds it
LockDiscipline ==
    \A t \in Threads :
       /\ Waiting(t) => lock # t
       /\ lock = t <=> Holding(t)

\* C39: no operation tries to acquire the store lock while its thread holds
\* it, every operation releases the lock on every path, exceptions
\* included, and so every call of any number of concurrent callers
\* returns in the end.
C39_NoDeadlock ==
    /\ []LockDiscipline
    /\ \A t \in Threads : pc[t] # "idle" ~> pc[t] = "idle"

\* a thread waits for the lock while another thread, whose init_db found
\* the table empty, is inside the upsert of import_from_files
C39_Witness ==
    \E t, u \in Threads :
       /\ Waiting(t)
       /\ Holding(u)
       /\ call[u] = FileLine

\* execute_with_retry is over, and the calls of func that raised
RetryEnded == retry_pc = "ended"
FailedCalls == {k \in DOMAIN func_calls : func_calls[k].ended = "raised"}

\* func is called at most max_retries times
AtMostMaxRetries == Len(func_calls) <= max_retries

\* the value of the first call that does not raise is returned: a call
\* that returned is the last call, and a value returned is its value
FirstValueReturned ==
    /\ \A k \in DOMAIN func_calls :
          func_calls[k].ended = "returned" =>
             k = Len(func_calls) /\ retry_result = Ended("returned", k)
    /\ retry_result.kind = "returned" =>
          /\ retry_result.call \in DOMAIN func_calls
          /\ func_calls[retry_result.call].ended = "returned"

\* no call is made once stop() was requested, and None is returned then:
\* None is what a worker returns that was stopped, and what is returned
\* when no call returned and fewer than max_retries calls failed
StoppedReturnsNone ==
    /\ \A k \in DOMAIN func_calls : ~func_calls[k].stopped
    /\ retry_result.kind = "none" => ~base_running
    /\ RetryEnded /\ Cardinality(FailedCalls) < max_retries
         /\ retry_result.kind # "returned" => retry_result.kind = "none"

\* after max_retries failed calls the error of the last call is raised
LastErrorRaised ==
    RetryEnded /\ Cardinality(FailedCalls) = max_retries =>
       /\ retry_result = Ended("raised", Len(func_calls))
       /\ retry_result.call \in DOMAIN func_calls

\* with max_retries \geq 1, after max_retries failed calls the error of the
\* last call is raised; with max_retries = 0 no call is made and an
\* Exception of execute_with_retry itself is raised, stopped or not
LastErrorRaisedIfAny ==
    RetryEnded /\ Cardinality(FailedCalls) = max_retries =>
       /\ retry_result = Ended("raised", Len(func_calls))
       /\ max_retries >= 1 => retry_result.call \in DOMAIN func_calls
       /\ max_retries = 0 => func_calls = <<>>

\* every pause is followed by a resume or a stop
PauseEnds == (is_paused /\ base_running) ~> (~is_paused \/ ~base_running)

\* a call of execute_with_retry ends
RetryTerminates == (retry_pc # "idle") ~> RetryEnded

====
